---- MODULE Spec2Model ----
(***************************************************************************)
(* A model of the livecoding collaborative editor: the character-level     *)
(* CRDT replica (static/lib/document.js, a Replicated Growable Array), the *)
(* two-replica exchange of the document tests, and a room in which several *)
(* clients (frontend/room.js) exchange operations through the event log.   *)
(*                                                                         *)
(* Positions and indices are 0-based as in the JavaScript source; the      *)
(* i-th entry of the JavaScript array entries is entries[i + 1] here.      *)
(* A text is a sequence of one-character strings.  A JavaScript exception  *)
(* is the field ok = FALSE of an operator's result, together with the      *)
(* document as the exception leaves it.                                    *)
(***************************************************************************)
EXTENDS Integers, Sequences, FiniteSets, TLC

\* ------------------------------------------------------------------------
\* Bounds of the model
\* ------------------------------------------------------------------------

\* Largest counter a GlobalId may carry (guards of the editing actions).
MaxCounter == 3

\* Most local edits made where several replicas edit (guards of their editing
\* actions).
MaxEdits == 3

\* Most local edits made in the pool of replicas.
MaxPoolEdits == 2

\* Most user edits made in the room.
MaxRoomEdits == 3

\* Longest value (in characters) of one local edit.
MaxValueLen == 2

\* Most user edits in the room view.
MaxViewEdits == 2

\* Most operations in one batch the room appends while a client joins.
MaxAppend == 2

\* The most plain updates handed to compactPlainUpdates in one list.
MaxUpdates == 3

\* The longest text a list of plain updates is applied to.
MaxTextLen == 2

\* settings.heartbitInterval, in seconds (the server sets it at bootstrap).
HeartbitInterval == 1

\* settings.documentLimit, in characters (the server sets it at bootstrap).
DocumentLimit == 2

\* Longest batch the single-replica driver hands to applyEvents.
MaxBatch == 1

\* Longest batch the properties of applyEvents are checked for, in every
\* reachable state of the replica.
MaxCheckedBatch == 2

\* Most entries the replica under test may hold (guards of the driver).
MaxEntries == 3

\* Largest counter of an operation that arrives from outside.
MaxRemoteCounter == 2

\* ------------------------------------------------------------------------
\* document.js: constants and value classes
\* ------------------------------------------------------------------------

INSERT_OPERATION == "insert"

DELETE_OPERATION == "delete"

\* JavaScript null in the place of a GlobalId (afterGid of an insert at head).
NullGid == [counter |-> -1, siteId |-> -1]

\* JavaScript null in the place of a character (char of a delete event).
NullChar == "null"

GlobalId(counter, siteId) == [counter |-> counter, siteId |-> siteId]

\* A compare that forgets the siteId: GlobalIds of equal counter tie.
CompareCounterOnly(a, b) ==
    IF a.counter < b.counter THEN -1
    ELSE IF a.counter > b.counter THEN 1
    ELSE 0

\* GlobalId.compare: lexicographic on (counter, siteId).
Compare(a, b) ==
    IF a.counter < b.counter THEN -1
    ELSE IF a.counter > b.counter THEN 1
    ELSE IF a.siteId < b.siteId THEN -1
    ELSE IF a.siteId > b.siteId THEN 1
    ELSE 0

CharEntry(c, gid) == [c |-> c, gid |-> gid, visible |-> TRUE]

PlainUpdate(from, to, value) == [from |-> from, to |-> to, value |-> value]

\* A newTo that is the end of the replaced range in the old text.
NewToIsTo(u) == u.to

\* PlainUpdate.newTo
NewTo(u) == u.from + Len(u.value)

CRDTEvent(type, gid, char, afterGid) ==
    [type |-> type, gid |-> gid, char |-> char, afterGid |-> afterGid]

Max(a, b) == IF a > b THEN a ELSE b

SetMin(S) == CHOOSE x \in S : \A y \in S : x <= y

\* ------------------------------------------------------------------------
\* document.js: compactPlainUpdates
\* ------------------------------------------------------------------------

RECURSIVE CompactFrom(_, _, _)
\* A compaction that keeps the first update's range when it merges, dropping
\* what the second one removes.
CompactFromKeepsTo(updates, k, result) ==
    IF k > Len(updates) THEN result
    ELSE IF Len(result) = 0 THEN CompactFrom(updates, k + 1, <<updates[k]>>)
    ELSE IF NewTo(result[Len(result)]) = updates[k].from
    THEN CompactFrom(updates, k + 1,
             [result EXCEPT ![Len(result)] =
                 PlainUpdate(result[Len(result)].from, result[Len(result)].to,
                             result[Len(result)].value \o updates[k].value)])
    ELSE CompactFrom(updates, k + 1, Append(result, updates[k]))

CompactFrom(updates, k, result) ==
    IF k > Len(updates) THEN result
    ELSE LET update == updates[k] IN
         IF Len(result) = 0 THEN CompactFrom(updates, k + 1, <<update>>)
         ELSE LET lastItem == result[Len(result)] IN
              IF NewTo(lastItem) = update.from
              THEN CompactFrom(updates, k + 1,
                       [result EXCEPT ![Len(result)] =
                           PlainUpdate(lastItem.from,
                                       lastItem.from + lastItem.to - lastItem.from
                                           + update.to - update.from,
                                       lastItem.value \o update.value)])
              ELSE CompactFrom(updates, k + 1, Append(result, update))

CompactPlainUpdates(updates) == CompactFrom(updates, 1, <<>>)

\* ------------------------------------------------------------------------
\* document.js: CRDTDocument
\* ------------------------------------------------------------------------

\* new CRDTDocument()
NewDocument ==
    [entries |-> <<>>,
     appliedOps |-> {},
     maxCounter |-> 0,
     lastEditedPosition |-> -1,
     cachedPosition |-> 0,
     cachedLength |-> 0]

\* entries[i] of the JavaScript array
At(d, i) == d.entries[i + 1]

\* getText(): the characters of the visible entries, in sequence order
RECURSIVE TextOf(_)
TextOf(entries) ==
    IF entries = <<>> THEN <<>>
    ELSE (IF Head(entries).visible THEN <<Head(entries).c>> ELSE <<>>)
         \o TextOf(Tail(entries))

GetText(d) == TextOf(d.entries)

\* The key insert() and delete() keep in appliedOps.
OpStr(type, gid) ==
    type \o "-" \o ToString(gid.siteId) \o "-" \o ToString(gid.counter)

\* A findGid without its second loop: it gives up at the end of entries.
FindGidNoWrap(d, gid) ==
    LET n == Len(d.entries)
        start == Max(d.lastEditedPosition - 1, 0)
        hit(i) == At(d, i).gid.counter = gid.counter /\ At(d, i).gid.siteId = gid.siteId
        upper == {i \in start .. n - 1 : hit(i)}
    IN  IF upper # {}
        THEN [pos |-> SetMin(upper), doc |-> [d EXCEPT !.lastEditedPosition = SetMin(upper)]]
        ELSE [pos |-> -1, doc |-> d]

\* findGid(gid): scans from lastEditedPosition - 1 to the end, then from 0;
\* a hit moves lastEditedPosition.
FindGid(d, gid) ==
    LET n == Len(d.entries)
        start == Max(d.lastEditedPosition - 1, 0)
        hit(i) == At(d, i).gid.counter = gid.counter /\ At(d, i).gid.siteId = gid.siteId
        upper == {i \in start .. n - 1 : hit(i)}
        lower == {i \in 0 .. start - 1 : i < n /\ hit(i)}
    IN  IF upper # {}
        THEN [pos |-> SetMin(upper), doc |-> [d EXCEPT !.lastEditedPosition = SetMin(upper)]]
        ELSE IF lower # {}
        THEN [pos |-> SetMin(lower), doc |-> [d EXCEPT !.lastEditedPosition = SetMin(lower)]]
        ELSE [pos |-> -1, doc |-> d]

\* The loop of getPrefixLength.
RECURSIVE CountVisible(_, _, _, _)
\* A loop that counts the tombstones too.
CountVisibleAndHidden(d, i, position, prefixLength) ==
    IF i < position THEN prefixLength + (position - i) ELSE prefixLength

CountVisible(d, i, position, prefixLength) ==
    IF i < position
    THEN CountVisible(d, i + 1, position,
                      IF At(d, i).visible THEN prefixLength + Len(At(d, i).c)
                      ELSE prefixLength)
    ELSE prefixLength

\* getPrefixLength(position)
GetPrefixLength(d, position) ==
    LET useCache == d.cachedPosition <= position
        prefixLength == CountVisible(d,
                                     IF useCache THEN d.cachedPosition ELSE 0,
                                     position,
                                     IF useCache THEN d.cachedLength ELSE 0)
    IN  [len |-> prefixLength,
         doc |-> [d EXCEPT !.cachedPosition = position, !.cachedLength = prefixLength]]

\* An insert that never walks past the entries that follow the anchor.
WalkNoSkip(d, position, gid) == position

\* The tie-break walk of insert().
RECURSIVE Walk(_, _, _)
Walk(d, position, gid) ==
    IF position < Len(d.entries) - 1 /\ Compare(At(d, position + 1).gid, gid) > 0
    THEN Walk(d, position + 1, gid)
    ELSE position

\* entries.splice(p, 0, e)
Splice(entries, p, e) ==
    SubSeq(entries, 1, p) \o <<e>> \o SubSeq(entries, p + 1, Len(entries))

\* What insert() and delete() return: the document after the call, the plain
\* updates returned (none when the call throws) and whether it returned.
Returned(d, out) == [doc |-> d, out |-> out, ok |-> TRUE]

Thrown(d) == [doc |-> d, out |-> <<>>, ok |-> FALSE]

\* insert(), from the splice on: the new entry goes to newItemsPosition, the
\* cache is reset when it lies past it, and the update is (length, length, char).
InsertUpdate(pl, char) == Returned(pl.doc, <<PlainUpdate(pl.len, pl.len, <<char>>)>>)

InsertResetCache(d, newItemsPosition) ==
    IF d.cachedPosition > newItemsPosition
    THEN [d EXCEPT !.cachedLength = 0, !.cachedPosition = 0]
    ELSE d

InsertSplice(d, newItemsPosition, char, gid) ==
    InsertUpdate(
        GetPrefixLength(
            InsertResetCache(
                [d EXCEPT !.entries = Splice(d.entries, newItemsPosition,
                                             CharEntry(char, gid)),
                          !.appliedOps = d.appliedOps \cup {OpStr(INSERT_OPERATION, gid)}],
                newItemsPosition),
            newItemsPosition),
        char)

\* An insert that takes a missing anchor for the head of the document.
InsertAfterLenient(found, char, gid, afterGid) ==
    InsertSplice(found.doc, Walk(found.doc, found.pos, gid) + 1, char, gid)

\* An insert that puts the new entry before the place the walk ended at.
InsertAfterOneEarly(found, char, gid, afterGid) ==
    IF afterGid # NullGid /\ found.pos = -1
    THEN Thrown(found.doc)
    ELSE InsertSplice(found.doc, Max(0, Walk(found.doc, found.pos, gid)), char, gid)

\* insert(), from the anchor found (found.pos = -1: no such entry) on.
InsertAfter(found, char, gid, afterGid) ==
    IF afterGid # NullGid /\ found.pos = -1
    THEN Thrown(found.doc)
    ELSE InsertSplice(found.doc, Walk(found.doc, found.pos, gid) + 1, char, gid)

\* An insert that does not look its key up in appliedOps.
InsertCountedNoDedup(d, char, gid, afterGid) ==
    IF Len(char) # 1 THEN Thrown(d)
    ELSE InsertAfter(IF afterGid = NullGid THEN [pos |-> -1, doc |-> d]
                     ELSE FindGid(d, afterGid),
                     char, gid, afterGid)

\* insert(), after maxCounter was raised.
InsertCounted(d, char, gid, afterGid) ==
    IF OpStr(INSERT_OPERATION, gid) \in d.appliedOps THEN Returned(d, <<>>)
    ELSE IF Len(char) # 1 THEN Thrown(d)
    ELSE InsertAfter(IF afterGid = NullGid THEN [pos |-> -1, doc |-> d]
                     ELSE FindGid(d, afterGid),
                     char, gid, afterGid)

\* An insert that does not raise maxCounter to the counter it sees.
InsertKeepsCounter(d, char, gid, afterGid) == InsertCounted(d, char, gid, afterGid)

\* insert(char, gid, afterGid)
Insert(d, char, gid, afterGid) ==
    InsertCounted([d EXCEPT !.maxCounter = Max(d.maxCounter, gid.counter)],
                  char, gid, afterGid)

\* delete(), from the update on: (length, length + 1, "").
DeleteUpdate(pl) == Returned(pl.doc, <<PlainUpdate(pl.len, pl.len + 1, <<>>)>>)

DeleteAdjustCache(d, pos) ==
    IF d.cachedPosition > pos
    THEN [d EXCEPT !.cachedLength = d.cachedLength - 1]
    ELSE d

\* A delete that takes the entry out of entries.
DeleteAtRemoves(found, gid) ==
    IF found.pos = -1 THEN Thrown(found.doc)
    ELSE DeleteUpdate(
             GetPrefixLength(
                 DeleteAdjustCache(
                     [found.doc EXCEPT
                        !.entries = SubSeq(found.doc.entries, 1, found.pos)
                                        \o SubSeq(found.doc.entries, found.pos + 2,
                                                  Len(found.doc.entries)),
                        !.appliedOps = found.doc.appliedOps
                                           \cup {OpStr(DELETE_OPERATION, gid)}],
                     found.pos),
                 found.pos))

\* A delete that records its key but leaves the entry visible.
DeleteAtKeepsVisible(found, gid) ==
    IF found.pos = -1 THEN Thrown(found.doc)
    ELSE DeleteUpdate(
             GetPrefixLength(
                 DeleteAdjustCache(
                     [found.doc EXCEPT
                        !.appliedOps = found.doc.appliedOps
                                           \cup {OpStr(DELETE_OPERATION, gid)}],
                     found.pos),
                 found.pos))

\* delete(), from the entry found (found.pos = -1: no such entry) on.
DeleteAt(found, gid) ==
    IF found.pos = -1 THEN Thrown(found.doc)
    ELSE DeleteUpdate(
             GetPrefixLength(
                 DeleteAdjustCache(
                     [found.doc EXCEPT
                        !.entries[found.pos + 1].visible = FALSE,
                        !.appliedOps = found.doc.appliedOps
                                           \cup {OpStr(DELETE_OPERATION, gid)}],
                     found.pos),
                 found.pos))

\* delete(), after maxCounter was raised.
DeleteCounted(d, gid) ==
    IF OpStr(DELETE_OPERATION, gid) \in d.appliedOps THEN Returned(d, <<>>)
    ELSE DeleteAt(FindGid(d, gid), gid)

\* delete(gid)
Delete(d, gid) ==
    DeleteCounted([d EXCEPT !.maxCounter = Max(d.maxCounter, gid.counter)], gid)

\* insert() or delete() for one event of applyEvents; an unknown type throws.
ApplyEvent(d, event) ==
    IF event.type = INSERT_OPERATION
    THEN Insert(d, event.char, event.gid, event.afterGid)
    ELSE IF event.type = DELETE_OPERATION
    THEN Delete(d, event.gid)
    ELSE Thrown(d)

\* The loop of applyEvents: an exception leaves the events before it applied.
RECURSIVE ApplyEventsFrom(_, _, _, _)
\* A loop that catches the exception of an event and goes on with the next.
ApplyEventsNextSkipsFailed(r, events, k, updates) ==
    ApplyEventsFrom(r.doc, events, k + 1, updates \o r.out)

ApplyEventsNext(r, events, k, updates) ==
    IF r.ok THEN ApplyEventsFrom(r.doc, events, k + 1, updates \o r.out)
    ELSE Thrown(r.doc)

\* A loop that takes the events of the batch from the last to the first.
ApplyEventsFromBackwards(d, events, k, updates) ==
    IF k > Len(events) THEN Returned(d, updates)
    ELSE ApplyEventsNext(ApplyEvent(d, events[Len(events) + 1 - k]), events, k, updates)

ApplyEventsFrom(d, events, k, updates) ==
    IF k > Len(events) THEN Returned(d, updates)
    ELSE ApplyEventsNext(ApplyEvent(d, events[k]), events, k, updates)

ApplyEventsCompact(r) ==
    IF r.ok THEN Returned(r.doc, CompactPlainUpdates(r.out)) ELSE r

\* applyEvents(events)
ApplyEvents(d, events) == ApplyEventsCompact(ApplyEventsFrom(d, events, 1, <<>>))

\* The loop of getPosition.
RECURSIVE Advance(_, _, _, _)
Advance(d, position, length, prefixLength) ==
    IF length < prefixLength /\ position < Len(d.entries)
    THEN Advance(d, position + 1,
                 IF At(d, position).visible THEN length + 1 ELSE length,
                 prefixLength)
    ELSE [position |-> position, length |-> length]

\* A getPosition that caches the position it found but not its length.
GetPositionAtKeepsLength(d, a, prefixLength) ==
    IF a.length # prefixLength THEN [pos |-> -1, doc |-> d, ok |-> FALSE]
    ELSE [pos |-> a.position,
          doc |-> [d EXCEPT !.cachedPosition = a.position],
          ok |-> TRUE]

GetPositionAt(d, a, prefixLength) ==
    IF a.length # prefixLength THEN [pos |-> -1, doc |-> d, ok |-> FALSE]
    ELSE [pos |-> a.position,
          doc |-> [d EXCEPT !.cachedPosition = a.position, !.cachedLength = a.length],
          ok |-> TRUE]

\* getPosition(prefixLength)
GetPosition(d, prefixLength) ==
    GetPositionAt(d,
                  IF d.cachedLength <= prefixLength
                  THEN Advance(d, d.cachedPosition, d.cachedLength, prefixLength)
                  ELSE Advance(d, 0, 0, prefixLength),
                  prefixLength)

\* What applyPlainUpdate returns: the document after the call, the events
\* emitted, whether it returned, and whether every
\* console.assert(insertEvent.from === from + i) held.
Emitted(d, out, asserted) == [doc |-> d, out |-> out, ok |-> TRUE, asserted |-> asserted]

Failed(d, asserted) == [doc |-> d, out |-> <<>>, ok |-> FALSE, asserted |-> asserted]

\* The first loop of applyPlainUpdate: delete the next removedChars visible entries.
RECURSIVE DeleteLoop(_, _, _, _)
\* A loop that puts each delete event in front of the ones before it.
DeleteLoopNextPrepends(r, gid, i, removedChars, result) ==
    IF r.ok
    THEN DeleteLoop(r.doc, i + 1, removedChars - 1,
                    <<CRDTEvent(DELETE_OPERATION, gid, NullChar, NullGid)>> \o result)
    ELSE [doc |-> r.doc, out |-> result, removedChars |-> removedChars, ok |-> FALSE]

DeleteLoopNext(r, gid, i, removedChars, result) ==
    IF r.ok
    THEN DeleteLoop(r.doc, i + 1, removedChars - 1,
                    Append(result, CRDTEvent(DELETE_OPERATION, gid, NullChar, NullGid)))
    ELSE [doc |-> r.doc, out |-> result, removedChars |-> removedChars, ok |-> FALSE]

DeleteLoop(d, i, removedChars, result) ==
    IF i < Len(d.entries) /\ removedChars > 0
    THEN IF At(d, i).visible
         THEN DeleteLoopNext(Delete(d, At(d, i).gid), At(d, i).gid, i, removedChars, result)
         ELSE DeleteLoop(d, i + 1, removedChars, result)
    ELSE [doc |-> d, out |-> result, removedChars |-> removedChars, ok |-> TRUE]

\* The second loop of applyPlainUpdate: insert value[i] after entries[entriesFrom + i].
RECURSIVE InsertLoop(_, _, _, _, _, _, _, _)
\* A loop that emits its insert events without their afterGid.
InsertLoopNextForgetsAnchor(r, gid, afterGid, i, value, entriesFrom, from, siteId, result, asserted) ==
    IF ~r.ok \/ r.out = <<>>
    THEN Failed(r.doc, asserted)
    ELSE InsertLoop(r.doc, i + 1, value, entriesFrom, from, siteId,
                    Append(result, CRDTEvent(INSERT_OPERATION, gid, value[i + 1], NullGid)),
                    asserted /\ r.out[1].from = from + i)

InsertLoopNext(r, gid, afterGid, i, value, entriesFrom, from, siteId, result, asserted) ==
    IF ~r.ok \/ r.out = <<>>
    THEN Failed(r.doc, asserted)
    ELSE InsertLoop(r.doc, i + 1, value, entriesFrom, from, siteId,
                    Append(result, CRDTEvent(INSERT_OPERATION, gid, value[i + 1], afterGid)),
                    asserted /\ r.out[1].from = from + i)

InsertLoopAfter(d, afterGid, gid, i, value, entriesFrom, from, siteId, result, asserted) ==
    InsertLoopNext(Insert(d, value[i + 1], gid, afterGid), gid, afterGid,
                   i, value, entriesFrom, from, siteId, result, asserted)

InsertLoop(d, i, value, entriesFrom, from, siteId, result, asserted) ==
    IF i < Len(value)
    THEN IF entriesFrom + i # -1 /\ ~(entriesFrom + i \in 0 .. Len(d.entries) - 1)
         THEN Failed(d, asserted)
         ELSE InsertLoopAfter(d,
                              IF entriesFrom + i = -1 THEN NullGid
                              ELSE At(d, entriesFrom + i).gid,
                              GlobalId(d.maxCounter + 1, siteId),
                              i, value, entriesFrom, from, siteId, result, asserted)
    ELSE Emitted(d, result, asserted)

\* applyPlainUpdate(), after the deletions.
ApplyPlainUpdateInsert(del, entriesFrom, from, value, siteId) ==
    IF ~del.ok \/ del.removedChars > 0
    THEN Failed(del.doc, TRUE)
    ELSE InsertLoop(del.doc, 0, value, entriesFrom, from, siteId, del.out, TRUE)

\* An applyPlainUpdate whose deletions start one entry late.
ApplyPlainUpdateAtOffByOne(p, from, to, value, siteId) ==
    IF ~p.ok THEN Failed(p.doc, TRUE)
    ELSE ApplyPlainUpdateInsert(DeleteLoop(p.doc, p.pos + 1, to - from, <<>>),
                                p.pos - 1, from, value, siteId)

\* applyPlainUpdate(), after getPosition(from).
ApplyPlainUpdateAt(p, from, to, value, siteId) ==
    IF ~p.ok THEN Failed(p.doc, TRUE)
    ELSE ApplyPlainUpdateInsert(DeleteLoop(p.doc, p.pos, to - from, <<>>),
                                p.pos - 1, from, value, siteId)

\* applyPlainUpdate(from, to, value, siteId)
ApplyPlainUpdate(d, from, to, value, siteId) ==
    ApplyPlainUpdateAt(GetPosition(d, from), from, to, value, siteId)

\* ------------------------------------------------------------------------
\* One replica driven through its public interface (specification Spec)
\* ------------------------------------------------------------------------

VARIABLES
    document,       \* the CRDTDocument under test
    last,           \* the last call made on it: its name, whether it returned (ok)
                    \* and how many updates or events it returned (n)
    integrated      \* the insert events document has integrated (history)

docVars == <<document, last, integrated>>

\* The two replicas of testRandomEdits and their queues.
VARIABLES
    aliceDocument,  \* Alice's replica, siteId 0
    bobDocument,    \* Bob's replica, siteId 1
    aliceQueue,     \* operations Bob emitted that Alice has not applied yet
    bobQueue,       \* operations Alice emitted that Bob has not applied yet
    edits           \* how many local edits were made (the loop bound of the test)

fifoVars == <<aliceDocument, bobDocument, aliceQueue, bobQueue, edits>>

\* The pool of replicas.
VARIABLES
    replicas,       \* siteId -> CRDTDocument
    sent,           \* the operations emitted so far, by any replica
    poolEdits       \* how many local edits were made

poolVars == <<replicas, sent, poolEdits>>

\* The room.
VARIABLES
    clients,        \* siteId -> [document, roomState] of the room view
    log,            \* the room's event log, in append order
    uplink,         \* siteId -> crdtEvents messages sent, not yet received by the server
    downlink,       \* siteId -> crdtEvents messages the server sent, not yet received
    roomEdits       \* how many user edits were made

roomVars == <<clients, log, uplink, downlink, roomEdits>>

\* One room view and its socket.
VARIABLES
    view,           \* the data of the room view, its editor, its socket, its ping
                    \* timer, and the seconds since the last inbound message (quiet)
                    \* and since the last heartbit message (noHeartbit)
    outbox,         \* the messages the view handed to socket.send on an open socket
    viewEdits       \* how many user edits were made in the view

viewVars == <<view, outbox, viewEdits>>

\* A client that joins the room.
VARIABLES
    joiner          \* its phase, the bootstrap response it got, its replica, the
                    \* offset it opened the session with, the crdtEvents messages
                    \* on their way to it (inbox), and as history the operations
                    \* it applied (applied) and how many the open pushed (backlog)

joinVars == <<joiner>>

\* A list of plain updates and the text it applies to.
VARIABLES
    compaction      \* the text, the plain updates made so far, the text they give
                    \* (now), whether compactPlainUpdates was called, and its result

compactVars == <<compaction>>

\* The site of the replica under test and the sites events arrive from.
LocalSite == 0

RemoteSites == {1}

\* The GlobalIds of arriving inserts, and every GlobalId an entry may carry.
RemoteGids == {GlobalId(c, s) : c \in 1 .. MaxRemoteCounter, s \in RemoteSites}

AllGids == RemoteGids \cup {GlobalId(c, LocalSite) : c \in 1 .. MaxCounter}

\* The character an arriving insert event carries: one letter per site and
\* counter parity.
CharOf(gid) == IF gid.siteId = 1 THEN (IF gid.counter % 2 = 1 THEN "a" ELSE "b")
               ELSE (IF gid.counter % 2 = 1 THEN "c" ELSE "d")

InsertEvents ==
    {CRDTEvent(INSERT_OPERATION, g, CharOf(g), a) :
        g \in RemoteGids, a \in AllGids \cup {NullGid}}

DeleteEvents == {CRDTEvent(DELETE_OPERATION, g, NullChar, NullGid) : g \in AllGids}

Events == InsertEvents \cup DeleteEvents

BatchesUpTo(m) == UNION {[1 .. n -> Events] : n \in 1 .. m}

\* The batches the driver hands to applyEvents.
Batches == BatchesUpTo(MaxBatch)

\* The values a local edit may insert.
Letters(siteId) ==
    IF siteId = 0 THEN <<"x", "y">> ELSE IF siteId = 1 THEN <<"p", "q">> ELSE <<"u", "v">>

ValuesOf(siteId) ==
    {[k \in 1 .. n |-> Letters(siteId)[((k - 1) % 2) + 1]] : n \in 0 .. MaxValueLen}

Values == ValuesOf(LocalSite)

\* The edits tried on a document: every range within and just beyond the text.
Positions(d) == 0 .. Len(GetText(d)) + 1

IsInsert(e) == e.type = INSERT_OPERATION

\* The insert events of a batch that a call integrated: those whose key is
\* applied after the call and was not before.
NewlyIntegrated(pre, post, events) ==
    {events[k] : k \in {j \in 1 .. Len(events) :
        /\ IsInsert(events[j])
        /\ OpStr(INSERT_OPERATION, events[j].gid) \in post.appliedOps \ pre.appliedOps
        /\ \A i \in 1 .. j - 1 : ~(IsInsert(events[i]) /\ events[i].gid = events[j].gid)}}

DocInit ==
    /\ document = NewDocument
    /\ last = [op |-> "none", ok |-> TRUE, n |-> 0]
    /\ integrated = {}

\* document.applyEvents(events), with events arriving from outside
ApplyEventsCall(events) ==
    LET r == ApplyEvents(document, events) IN
    /\ Len(r.doc.entries) <= MaxEntries
    /\ document' = r.doc
    /\ last' = [op |-> "applyEvents", ok |-> r.ok, n |-> Len(r.out)]
    /\ integrated' = integrated \cup NewlyIntegrated(document, r.doc, events)
    /\ UNCHANGED <<fifoVars, poolVars, roomVars, viewVars, joinVars, compactVars>>

\* document.applyPlainUpdate(from, to, value, siteId), a local edit
ApplyPlainUpdateCall(from, to, value) ==
    LET r == ApplyPlainUpdate(document, from, to, value, LocalSite) IN
    /\ document.maxCounter + Len(value) <= MaxCounter
    /\ Len(r.doc.entries) <= MaxEntries
    /\ document' = r.doc
    /\ last' = [op |-> "applyPlainUpdate", ok |-> r.ok, n |-> Len(r.out)]
    /\ integrated' = integrated \cup NewlyIntegrated(document, r.doc, r.out)
    /\ UNCHANGED <<fifoVars, poolVars, roomVars, viewVars, joinVars, compactVars>>

\* getPrefixLength reads entries[i] for i up to position - 1: past the end of
\* entries that is a TypeError, thrown before the cache is written.
GetPrefixLengthThrows(d, position) ==
    \E i \in (IF d.cachedPosition <= position THEN d.cachedPosition ELSE 0) .. position - 1 :
        i >= Len(d.entries)

\* document.getPrefixLength(position), called from outside
GetPrefixLengthCall(position) ==
    /\ document' = IF GetPrefixLengthThrows(document, position) THEN document
                   ELSE GetPrefixLength(document, position).doc
    /\ last' = [op |-> "getPrefixLength",
                ok |-> ~GetPrefixLengthThrows(document, position),
                n |-> 0]
    /\ UNCHANGED integrated
    /\ UNCHANGED <<fifoVars, poolVars, roomVars, viewVars, joinVars, compactVars>>


\* ------------------------------------------------------------------------
\* Two replicas exchanging operations through FIFO queues, as in
\* testRandomEdits (specification SpecFifo)
\* ------------------------------------------------------------------------

AliceSite == 0

BobSite == 1

\* generateRandomEdit(value): a range within the text and a value.
ValidEdits(d, siteId) ==
    {<<from, to, value>> \in
        (0 .. Len(GetText(d))) \X (0 .. Len(GetText(d))) \X ValuesOf(siteId) :
            from <= to}

FifoInit ==
    /\ aliceDocument = NewDocument
    /\ bobDocument = NewDocument
    /\ aliceQueue = <<>>
    /\ bobQueue = <<>>
    /\ edits = 0

\* bobQueue.push(...aliceDocument.applyPlainUpdate(from, to, value, 0))
AliceEdit ==
    \E e \in ValidEdits(aliceDocument, AliceSite) :
        LET r == ApplyPlainUpdate(aliceDocument, e[1], e[2], e[3], AliceSite) IN
        /\ edits < MaxEdits
        /\ r.ok
        /\ edits' = edits + 1
        /\ aliceDocument' = r.doc
        /\ bobQueue' = bobQueue \o r.out
        /\ UNCHANGED <<bobDocument, aliceQueue>>
        /\ UNCHANGED <<docVars, poolVars, roomVars, viewVars, joinVars, compactVars>>

\* aliceQueue.push(...bobDocument.applyPlainUpdate(from, to, value, 1))
BobEdit ==
    \E e \in ValidEdits(bobDocument, BobSite) :
        LET r == ApplyPlainUpdate(bobDocument, e[1], e[2], e[3], BobSite) IN
        /\ edits < MaxEdits
        /\ r.ok
        /\ edits' = edits + 1
        /\ bobDocument' = r.doc
        /\ aliceQueue' = aliceQueue \o r.out
        /\ UNCHANGED <<aliceDocument, bobQueue>>
        /\ UNCHANGED <<docVars, poolVars, roomVars, viewVars, joinVars, compactVars>>

\* aliceDocument.applyEvents(batch) for a batch from the head of aliceQueue
AliceDeliver ==
    \E n \in 1 .. Len(aliceQueue) :
        LET r == ApplyEvents(aliceDocument, SubSeq(aliceQueue, 1, n)) IN
        /\ r.ok
        /\ aliceDocument' = r.doc
        /\ aliceQueue' = SubSeq(aliceQueue, n + 1, Len(aliceQueue))
        /\ UNCHANGED <<bobDocument, bobQueue, edits>>
        /\ UNCHANGED <<docVars, poolVars, roomVars, viewVars, joinVars, compactVars>>

\* bobDocument.applyEvents(batch) for a batch from the head of bobQueue
BobDeliver ==
    \E n \in 1 .. Len(bobQueue) :
        LET r == ApplyEvents(bobDocument, SubSeq(bobQueue, 1, n)) IN
        /\ r.ok
        /\ bobDocument' = r.doc
        /\ bobQueue' = SubSeq(bobQueue, n + 1, Len(bobQueue))
        /\ UNCHANGED <<aliceDocument, aliceQueue, edits>>
        /\ UNCHANGED <<docVars, poolVars, roomVars, viewVars, joinVars, compactVars>>


\* ------------------------------------------------------------------------
\* Replicas applying the operations of the others in any order, any number
\* of times (specification SpecPool)
\* ------------------------------------------------------------------------

PoolSites == {0, 1, 2}

\* The sites that edit; the others only apply what was sent.
PoolEditors == {0, 1}

PoolInit ==
    /\ replicas = [s \in PoolSites |-> NewDocument]
    /\ sent = {}
    /\ poolEdits = 0

\* A local edit at site s; the emitted operations become available to all.
PoolEdit(s) ==
    \E e \in ValidEdits(replicas[s], s) :
        LET r == ApplyPlainUpdate(replicas[s], e[1], e[2], e[3], s) IN
        /\ poolEdits < MaxPoolEdits
        /\ r.ok
        /\ r.out # <<>>
        /\ replicas' = [replicas EXCEPT ![s] = r.doc]
        /\ sent' = sent \cup {r.out[k] : k \in 1 .. Len(r.out)}
        /\ poolEdits' = poolEdits + 1
        /\ UNCHANGED <<docVars, fifoVars, roomVars, viewVars, joinVars, compactVars>>

\* Site s applies one sent operation, whatever it applied before; an
\* operation whose anchor or target is missing throws and is not applied.
PoolApply(s) ==
    \E event \in sent :
        /\ replicas' = [replicas EXCEPT ![s] = ApplyEvents(replicas[s], <<event>>).doc]
        /\ UNCHANGED <<sent, poolEdits>>
        /\ UNCHANGED <<docVars, fifoVars, roomVars, viewVars, joinVars, compactVars>>


\* ------------------------------------------------------------------------
\* A room: clients (frontend/room.js) editing through the server's event
\* log (specification SpecRoom).  The server is not part of the sources; its
\* fan-out is modelled from the specification of the Room Hub.
\* ------------------------------------------------------------------------

\* The siteIds the server assigned to the sessions of the room.
RoomSites == {0, 1, 2}

RoomInit ==
    /\ clients = [s \in RoomSites |-> [document |-> NewDocument, roomState |-> "editing"]]
    /\ log = <<>>
    /\ uplink = [s \in RoomSites |-> <<>>]
    /\ downlink = [s \in RoomSites |-> <<>>]
    /\ roomEdits = 0

\* onViewUpdate for a user transaction with one change: the replica applies
\* it and the emitted events, if any, are sent (broadcastCrdtEvents).
OnViewUpdate(s) ==
    \E e \in ValidEdits(clients[s].document, s) :
        LET r == ApplyPlainUpdate(clients[s].document, e[1], e[2], e[3], s) IN
        /\ clients[s].roomState = "editing"
        /\ roomEdits < MaxRoomEdits
        /\ roomEdits' = roomEdits + 1
        /\ IF r.ok
           THEN /\ clients' = [clients EXCEPT ![s].document = r.doc]
                /\ uplink' = IF Len(r.out) > 0
                             THEN [uplink EXCEPT ![s] = Append(@, r.out)]
                             ELSE uplink
           ELSE /\ clients' = [clients EXCEPT ![s] =
                                  [document |-> r.doc, roomState |-> "terminated"]]
                /\ UNCHANGED uplink
        /\ UNCHANGED <<log, downlink>>
        /\ UNCHANGED <<docVars, fifoVars, poolVars, viewVars, joinVars, compactVars>>

\* The server receives a batch from session s: it appends the operations to
\* the log in arrival order and forwards the batch to every other session.
ServerReceive(s) ==
    /\ uplink[s] # <<>>
    /\ log' = log \o Head(uplink[s])
    /\ uplink' = [uplink EXCEPT ![s] = Tail(@)]
    /\ downlink' = [t \in RoomSites |->
                        IF t = s THEN downlink[t]
                        ELSE Append(downlink[t], Head(uplink[s]))]
    /\ UNCHANGED <<clients, roomEdits>>
    /\ UNCHANGED <<docVars, fifoVars, poolVars, viewVars, joinVars, compactVars>>

\* onSocketMessage with a crdtEvents message: dispatchCrdtEvent applies the
\* batch; an exception terminates the client.
OnCrdtEvents(s) ==
    /\ downlink[s] # <<>>
    /\ downlink' = [downlink EXCEPT ![s] = Tail(@)]
    /\ IF clients[s].roomState = "terminated"
       THEN UNCHANGED clients
       ELSE LET r == ApplyEvents(clients[s].document, Head(downlink[s])) IN
            clients' = [clients EXCEPT ![s] =
                           [document |-> r.doc,
                            roomState |-> IF r.ok THEN @.roomState ELSE "terminated"]]
    /\ UNCHANGED <<log, uplink, roomEdits>>
    /\ UNCHANGED <<docVars, fifoVars, poolVars, viewVars, joinVars, compactVars>>

\* ------------------------------------------------------------------------
\* One room view (frontend/room.js) with its socket, its ping timer and its
\* user (specification SpecView).  The socket is connecting, open, closing
\* (close() was called on an open socket and the closing handshake is not
\* over: messages that arrive meanwhile may still be dispatched, room.js has
\* no check of its own) or closed (the close event was dispatched, or the
\* connection never opened).  socket.send on a socket that is not open sends
\* nothing.
\* ------------------------------------------------------------------------

\* siteId: null
NoSite == -1

\* name: null, and no name under roomId in sessionStorage
NoName == "null"

\* The siteId the server assigns to the view, and the names a user types.
ViewSiteIds == {0}

ViewNames == {"ann"}

\* socket.send("Hello"): a text that is not JSON.
HelloText ==
    [json |-> FALSE, text |-> "Hello", keys |-> {}, events |-> <<>>,
     name |-> NoName, siteId |-> NoSite, visible |-> FALSE]

\* JSON.stringify({crdtEvents: events})
CrdtEventsJson(events) ==
    [json |-> TRUE, text |-> "", keys |-> {"crdtEvents"}, events |-> events,
     name |-> NoName, siteId |-> NoSite, visible |-> FALSE]

\* JSON.stringify({sitePresence: {name, siteId, visible}})
SitePresenceJson(name, siteId, visible) ==
    [json |-> TRUE, text |-> "", keys |-> {"sitePresence"}, events |-> <<>>,
     name |-> name, siteId |-> siteId, visible |-> visible]

\* A message event of the socket: the key onSocketMessage finds in the
\* parsed data ("malformed": data JSON.parse throws on; "unknown": none of
\* the keys it knows) and the fields it reads.
ServerMessage(key, siteId, events, name, visible) ==
    [key |-> key, siteId |-> siteId, events |-> events, name |-> name, visible |-> visible]

\* The crdtEvents batches that arrive: operations of site 1.
ViewBatches ==
    {<<CRDTEvent(INSERT_OPERATION, GlobalId(1, 1), "a", NullGid)>>,
     <<CRDTEvent(DELETE_OPERATION, GlobalId(1, 1), NullChar, NullGid)>>}

ServerMessages ==
    {ServerMessage("setSiteId", s, <<>>, NoName, FALSE) : s \in ViewSiteIds}
    \cup {ServerMessage("crdtEvents", NoSite, b, NoName, FALSE) : b \in ViewBatches}
    \cup {ServerMessage("sitePresence", 1, <<>>, "bob", v) : v \in BOOLEAN}
    \cup {ServerMessage(k, 1, <<>>, NoName, FALSE) :
              k \in {"siteDisconnected", "heartbit", "compactionRequired",
                     "unknown", "malformed"}}

\* The event logs a bootstrap response may carry: the empty log, a log with
\* one insert, and a log whose delete names a GlobalId no entry carries.
BootstrapLogs ==
    {<<>>,
     <<CRDTEvent(INSERT_OPERATION, GlobalId(1, 1), "a", NullGid)>>,
     <<CRDTEvent(DELETE_OPERATION, GlobalId(1, 1), NullChar, NullGid)>>}

\* data(): the view before mounted() ran; there is no socket yet and the
\* editor is empty and not editable.
ViewInit ==
    /\ view = [roomState |-> "connecting",
               siteId |-> NoSite,
               name |-> NoName,
               sites |-> {},
               sinceHeartbit |-> 0,
               compactionRequired |-> FALSE,
               document |-> NewDocument,
               editor |-> <<>>,
               mounted |-> FALSE,
               socket |-> "none",
               pingChecker |-> FALSE,
               stored |-> NoName,
               quiet |-> 0,
               noHeartbit |-> 0]
    /\ outbox = {}
    /\ viewEdits = 0

\* What a handler leaves: the view, what it handed to socket.send, and
\* whether it returned (FALSE: it threw).
Handled(v, messages) == [view |-> v, sent |-> messages, ok |-> TRUE]

Threw(v) == [view |-> v, sent |-> {}, ok |-> FALSE]

\* socket.close(): readyState after the call.
Close(socket) ==
    CASE socket = "open" -> "closing"
      [] socket = "connecting" -> "closed"
      [] OTHER -> socket

\* A terminateEverything that leaves the presence table as it is.
TerminateEverythingKeepsSites(v, compactionRequired) ==
    IF v.roomState = "terminated" THEN v
    ELSE [v EXCEPT !.compactionRequired = compactionRequired,
                   !.siteId = NoSite,
                   !.roomState = "terminated",
                   !.socket = Close(v.socket)]

\* A terminateEverything that runs again on a view that is terminated.
TerminateEverythingAgain(v, compactionRequired) ==
    [v EXCEPT !.sites = {},
              !.compactionRequired = compactionRequired,
              !.siteId = NoSite,
              !.roomState = "terminated",
              !.socket = Close(v.socket)]

\* terminateEverything(compactionRequired)
TerminateEverything(v, compactionRequired) ==
    IF v.roomState = "terminated" THEN v
    ELSE [v EXCEPT !.sites = {},
                   !.compactionRequired = compactionRequired,
                   !.siteId = NoSite,
                   !.roomState = "terminated",
                   !.socket = Close(v.socket)]

\* An enterRoom that announces the name under the key siteHello.
EnterRoomSiteHello(v, name) ==
    Handled([v EXCEPT !.name = name, !.stored = name, !.roomState = "editing"],
            {[SitePresenceJson(name, v.siteId, TRUE) EXCEPT !.keys = {"siteHello"}]})

\* enterRoom(name)
EnterRoom(v, name) ==
    Handled([v EXCEPT !.name = name, !.stored = name, !.roomState = "editing"],
            {SitePresenceJson(name, v.siteId, TRUE)})

\* onSocketMessage, the setSiteId branch
OnSetSiteId(v, msg) ==
    IF v.siteId # NoSite THEN Handled(TerminateEverything(v, FALSE), {})
    ELSE IF v.stored # NoName
    THEN EnterRoom([v EXCEPT !.siteId = msg.siteId, !.roomState = "waitingForName"],
                   v.stored)
    ELSE Handled([v EXCEPT !.siteId = msg.siteId, !.roomState = "waitingForName"], {})

\* The editor's text after a change: [from, to) is replaced by value.
Replace(text, from, to, value) ==
    SubSeq(text, 1, from) \o value \o SubSeq(text, to + 1, Len(text))

\* A changeFilter that lets every transaction through.
CheckLengthAlways(userEvent, text, newDoc) == TRUE

\* checkLength(transaction), the changeFilter of the editor: userEvent is
\* whether the transaction carries the annotation Transaction.userEvent,
\* text the document before it and newDoc the one after it (they differ).
CheckLength(userEvent, text, newDoc) ==
    IF ~userEvent THEN TRUE
    ELSE ~(Len(text) < Len(newDoc) /\ Len(newDoc) > DocumentLimit)

\* view.dispatch of a transaction without annotation that replaces
\* [from, to) by value: the changeFilter drops the change it refuses.
Dispatch(text, newDoc) == IF CheckLength(FALSE, text, newDoc) THEN newDoc ELSE text

\* The second loop of dispatchCrdtEvent: one editor transaction per update,
\* each on the text the one before left; a range outside the text throws.
RECURSIVE DispatchUpdates(_, _, _)
DispatchUpdates(text, updates, k) ==
    IF k > Len(updates) THEN [text |-> text, ok |-> TRUE]
    ELSE IF updates[k].from > updates[k].to \/ updates[k].to > Len(text)
    THEN [text |-> text, ok |-> FALSE]
    ELSE DispatchUpdates(
             Dispatch(text, Replace(text, updates[k].from, updates[k].to, updates[k].value)),
             updates, k + 1)

DispatchedTo(v, r, e) ==
    IF e.ok THEN Handled([v EXCEPT !.document = r.doc, !.editor = e.text], {})
    ELSE Threw([v EXCEPT !.document = r.doc, !.editor = e.text])

\* dispatchCrdtEvent(events), for the replica of the view: applyEvents
\* returns r, or throws before the editor saw any update.
DispatchCrdtEvent(v, r) ==
    IF r.ok THEN DispatchedTo(v, r, DispatchUpdates(v.editor, r.out, 1))
    ELSE Threw([v EXCEPT !.document = r.doc])

\* A heartbit branch that leaves lastHeartbitTs as it was.
OnHeartbitIgnored(v) == Handled(v, {})

\* onSocketMessage, the heartbit branch: lastHeartbitTs = Date.now()
OnHeartbit(v) == Handled([v EXCEPT !.sinceHeartbit = 0], {})

\* onSocketMessage(event)
OnSocketMessage(v, msg) ==
    IF msg.key = "malformed" THEN Threw(v)
    ELSE IF msg.key = "setSiteId" THEN OnSetSiteId(v, msg)
    ELSE IF msg.key = "crdtEvents"
    THEN DispatchCrdtEvent(v, ApplyEvents(v.document, msg.events))
    ELSE IF msg.key = "sitePresence"
    THEN Handled([v EXCEPT !.sites = {p \in v.sites : p.siteId # msg.siteId}
                               \cup {[siteId |-> msg.siteId, name |-> msg.name,
                                      visible |-> msg.visible]}], {})
    ELSE IF msg.key = "siteDisconnected"
    THEN Handled([v EXCEPT !.sites = {p \in v.sites : p.siteId # msg.siteId}], {})
    ELSE IF msg.key = "heartbit"
    THEN OnHeartbit(v)
    ELSE IF msg.key = "compactionRequired"
    THEN Handled(TerminateEverything(v, TRUE), {})
    ELSE Handled(TerminateEverything(v, FALSE), {})

\* try { handler } catch { terminateEverything() }, and what reaches the
\* wire: socket.send sends only on a socket that was open.
Guarded(h) == IF h.ok THEN h.view ELSE TerminateEverything(h.view, FALSE)

Wire(v, h) == IF v.socket = "open" THEN h.sent ELSE {}

\* mounted(), from the bootstrap response on: the log is replayed outside any
\* try/catch, and the socket is created after the replay returned.
MountedWith(h) ==
    IF h.ok THEN [h.view EXCEPT !.mounted = TRUE, !.socket = "connecting"]
    ELSE [h.view EXCEPT !.mounted = TRUE]

Mounted(events) ==
    /\ ~view.mounted
    /\ view' = MountedWith(DispatchCrdtEvent(view, ApplyEvents(view.document, events)))
    /\ UNCHANGED <<outbox, viewEdits>>
    /\ UNCHANGED <<docVars, fifoVars, poolVars, roomVars, joinVars, compactVars>>

\* socket.onopen: the greeting, and the ping timer is started.
SocketOpen ==
    /\ view.socket = "connecting"
    /\ view' = [view EXCEPT !.socket = "open", !.sinceHeartbit = 0, !.pingChecker = TRUE]
    /\ outbox' = outbox \cup {HelloText}
    /\ UNCHANGED viewEdits
    /\ UNCHANGED <<docVars, fifoVars, poolVars, roomVars, joinVars, compactVars>>

\* socket.onmessage with this message
SocketMessage(msg) ==
    /\ view.socket \in {"open", "closing"}
    /\ view' = [Guarded(OnSocketMessage(view, msg)) EXCEPT
                    !.quiet = 0,
                    !.noHeartbit = IF msg.key = "heartbit" THEN 0 ELSE @]
    /\ outbox' = outbox \cup Wire(view, OnSocketMessage(view, msg))
    /\ UNCHANGED viewEdits
    /\ UNCHANGED <<docVars, fifoVars, poolVars, roomVars, joinVars, compactVars>>

\* socket.onclose: the close event, dispatched once.
SocketClose ==
    /\ view.socket \in {"connecting", "open", "closing"}
    /\ view' = [TerminateEverything(view, FALSE) EXCEPT !.socket = "closed"]
    /\ UNCHANGED <<outbox, viewEdits>>
    /\ UNCHANGED <<docVars, fifoVars, poolVars, roomVars, joinVars, compactVars>>

\* socket.onerror
SocketError ==
    /\ view.socket \in {"connecting", "open", "closing"}
    /\ view' = TerminateEverything(view, FALSE)
    /\ UNCHANGED <<outbox, viewEdits>>
    /\ UNCHANGED <<docVars, fifoVars, poolVars, roomVars, joinVars, compactVars>>

\* One second passes and the pingChecker interval fires.
PingChecker ==
    /\ view.pingChecker
    /\ view' = IF view.sinceHeartbit + 1 > 2 * HeartbitInterval
               THEN [TerminateEverything(view, FALSE) EXCEPT
                        !.sinceHeartbit = 2 * HeartbitInterval + 1,
                        !.pingChecker = FALSE,
                        !.quiet = view.quiet + 1,
                        !.noHeartbit = view.noHeartbit + 1]
               ELSE [view EXCEPT !.sinceHeartbit = view.sinceHeartbit + 1,
                                 !.quiet = view.quiet + 1,
                                 !.noHeartbit = view.noHeartbit + 1]
    /\ UNCHANGED <<outbox, viewEdits>>
    /\ UNCHANGED <<docVars, fifoVars, poolVars, roomVars, joinVars, compactVars>>

\* A name form that can be submitted in every state of the view.
SubmitNameAnytime(name) ==
    /\ view' = EnterRoom(view, name).view
    /\ outbox' = outbox \cup Wire(view, EnterRoom(view, name))
    /\ UNCHANGED viewEdits
    /\ UNCHANGED <<docVars, fifoVars, poolVars, roomVars, joinVars, compactVars>>

\* The user submits the name form, which the template shows while the view
\* waits for a name.
SubmitName(name) ==
    /\ view.roomState = "waitingForName"
    /\ view' = EnterRoom(view, name).view
    /\ outbox' = outbox \cup Wire(view, EnterRoom(view, name))
    /\ UNCHANGED viewEdits
    /\ UNCHANGED <<docVars, fifoVars, poolVars, roomVars, joinVars, compactVars>>

\* The changes a user transaction may carry, as iterChanges reports them:
\* <<fromA, toA, inserted>> in the coordinates of the text before the
\* transaction, in increasing order.  One change replaces any range by a
\* value; two changes (several cursors, or a command on several lines) are
\* apart by at least one character and insert at most one character each.
EditorChanges(text, values) ==
    {c \in (0 .. Len(text)) \X (0 .. Len(text)) \X values :
        c[1] <= c[2] /\ (c[1] < c[2] \/ c[3] # <<>>)}

Transactions(text, siteId) ==
    {<<c>> : c \in EditorChanges(text, ValuesOf(siteId))}
    \cup {t \in EditorChanges(text, {<<>>, <<Letters(siteId)[1]>>})
                  \X EditorChanges(text, {<<>>, <<Letters(siteId)[1]>>}) :
              t[1][2] < t[2][1]}

\* transaction.newDoc: every change applied to the text before the transaction.
RECURSIVE NewDoc(_, _)
NewDoc(text, changes) ==
    IF changes = <<>> THEN text
    ELSE NewDoc(Replace(text, changes[Len(changes)][1], changes[Len(changes)][2],
                        changes[Len(changes)][3]),
                SubSeq(changes, 1, Len(changes) - 1))

\* The iterChanges loop of onViewUpdate: applyPlainUpdate for each change,
\* with the positions iterChanges reports.
RECURSIVE IterChanges(_, _, _, _, _)
IterChangesNext(r, changes, k, events, siteId) ==
    IF r.ok THEN IterChanges(r.doc, changes, k + 1, events \o r.out, siteId)
    ELSE [doc |-> r.doc, out |-> <<>>, ok |-> FALSE]

IterChanges(d, changes, k, events, siteId) ==
    IF k > Len(changes) THEN [doc |-> d, out |-> events, ok |-> TRUE]
    ELSE IterChangesNext(ApplyPlainUpdate(d, changes[k][1], changes[k][2], changes[k][3],
                                          siteId),
                         changes, k, events, siteId)

\* onViewUpdate for a user transaction, in the try/catch of the update
\* listener; r is what the iterChanges loop left.
ViewUpdate(v, r) ==
    IF ~r.ok THEN Threw([v EXCEPT !.document = r.doc])
    ELSE Handled([v EXCEPT !.document = r.doc],
                 IF Len(r.out) > 0 THEN {CrdtEventsJson(r.out)} ELSE {})

\* The editor dispatched a user transaction: its text is the new one when
\* the update listener runs.
Edited(v, changes) ==
    ViewUpdate([v EXCEPT !.editor = NewDoc(v.editor, changes)],
               IterChanges(v.document, changes, 1, <<>>, v.siteId))

\* The user edits the text; the editor is editable while the view is
\* editing (watch.roomState), and a transaction the changeFilter refuses
\* changes nothing.
UserEdit(changes) ==
    /\ view.roomState = "editing"
    /\ viewEdits < MaxViewEdits
    /\ viewEdits' = viewEdits + 1
    /\ IF CheckLength(TRUE, view.editor, NewDoc(view.editor, changes))
       THEN /\ view' = Guarded(Edited(view, changes))
            /\ outbox' = outbox \cup Wire(view, Edited(view, changes))
       ELSE UNCHANGED <<view, outbox>>
    /\ UNCHANGED <<docVars, fifoVars, poolVars, roomVars, joinVars, compactVars>>

\* visibilityChange(), with document.hidden = ~visible
VisibilityChange(visible) ==
    /\ outbox' = IF view.roomState = "editing" /\ view.socket = "open"
                 THEN outbox \cup {SitePresenceJson(view.name, view.siteId, visible)}
                 ELSE outbox
    /\ UNCHANGED <<view, viewEdits>>
    /\ UNCHANGED <<docVars, fifoVars, poolVars, roomVars, joinVars, compactVars>>

\* ------------------------------------------------------------------------
\* A client joins a room whose log grows (specification SpecJoin): the
\* bootstrap request, mounted() and the session of frontend/room.js.  The
\* server is not part of the sources; the bootstrap response, the push at
\* session open and the fan-out are modelled from the specification of the
\* Room Log and the Room Hub.  The room handles one request at a time, so the
\* open of a session (push of the operations from its offset on, and the
\* subscription to later ones) is one step.
\* ------------------------------------------------------------------------

\* The operations the other sessions send, in the order the room appends them.
JoinOps ==
    <<CRDTEvent(INSERT_OPERATION, GlobalId(1, 1), "a", NullGid),
      CRDTEvent(INSERT_OPERATION, GlobalId(2, 1), "b", GlobalId(1, 1)),
      CRDTEvent(DELETE_OPERATION, GlobalId(1, 1), NullChar, NullGid),
      CRDTEvent(INSERT_OPERATION, GlobalId(3, 2), "c", GlobalId(2, 1))>>

JoinInit ==
    joiner = [phase |-> "created",
              events |-> <<>>,
              document |-> NewDocument,
              offset |-> 0,
              inbox |-> <<>>,
              applied |-> <<>>,
              backlog |-> 0]

\* since(offset): the operations of the log with indices >= offset
Since(offset) == SubSeq(log, offset + 1, Len(log))

\* The room appends a batch another session sent and forwards it to the
\* joiner's session once that is open.
RoomAppend(n) ==
    /\ Len(log) + n <= Len(JoinOps)
    /\ log' = log \o SubSeq(JoinOps, Len(log) + 1, Len(log) + n)
    /\ joiner' = IF joiner.phase = "open"
                 THEN [joiner EXCEPT !.inbox =
                          Append(@, SubSeq(JoinOps, Len(log) + 1, Len(log) + n))]
                 ELSE joiner
    /\ UNCHANGED <<clients, uplink, downlink, roomEdits>>
    /\ UNCHANGED <<docVars, fifoVars, poolVars, viewVars, compactVars>>

\* mounted(), the fetch: GET /resource/room/{roomId} answers with the log as
\* it is now.
Fetch ==
    /\ joiner.phase = "created"
    /\ joiner' = [joiner EXCEPT !.phase = "fetched", !.events = Since(0)]
    /\ UNCHANGED <<docVars, fifoVars, poolVars, roomVars, viewVars, compactVars>>

\* A session path that always asks for offset 0.
GetWebsocketOffsetZero(events) == 0

\* The offset in getWebsocketPath(this.roomId, roomModel.events.length)
GetWebsocketOffset(events) == Len(events)

\* mounted(), after the fetch: the replay of the bootstrap log, and the
\* session is asked for.
MountedAfter(j, r) ==
    IF r.ok
    THEN [j EXCEPT !.phase = "connecting",
                   !.document = r.doc,
                   !.applied = j.events,
                   !.offset = GetWebsocketOffset(j.events)]
    ELSE [j EXCEPT !.phase = "failed", !.document = r.doc]

Replay ==
    /\ joiner.phase = "fetched"
    /\ joiner' = MountedAfter(joiner, ApplyEvents(joiner.document, joiner.events))
    /\ UNCHANGED <<docVars, fifoVars, poolVars, roomVars, viewVars, compactVars>>

\* The room opens the session: it pushes the operations with
\* offset >= the session's joinOffset, if any, and subscribes the session.
ServerOpen ==
    /\ joiner.phase = "connecting"
    /\ joiner' = [joiner EXCEPT !.phase = "open",
                                !.backlog = Len(Since(joiner.offset)),
                                !.inbox = IF Since(joiner.offset) = <<>> THEN <<>>
                                          ELSE <<Since(joiner.offset)>>]
    /\ UNCHANGED <<docVars, fifoVars, poolVars, roomVars, viewVars, compactVars>>

\* onSocketMessage with a crdtEvents message: dispatchCrdtEvent applies the
\* batch; an exception terminates the client.
Received(j, r) ==
    [j EXCEPT !.phase = IF r.ok THEN "open" ELSE "terminated",
              !.document = r.doc,
              !.applied = j.applied \o Head(j.inbox),
              !.inbox = Tail(j.inbox)]

Receive ==
    /\ joiner.phase = "open"
    /\ joiner.inbox # <<>>
    /\ joiner' = Received(joiner, ApplyEvents(joiner.document, Head(joiner.inbox)))
    /\ UNCHANGED <<docVars, fifoVars, poolVars, roomVars, viewVars, compactVars>>

\* ------------------------------------------------------------------------
\* document.js: compactPlainUpdates on any list of plain updates
\* (specification SpecCompact)
\* ------------------------------------------------------------------------

\* applyEdit(value, plainUpdate) of the tests: replace [from, to) by value.
ApplyEdit(value, plainUpdate) ==
    SubSeq(value, 1, plainUpdate.from) \o plainUpdate.value
        \o SubSeq(value, plainUpdate.to + 1, Len(value))

\* The view of dispatchCrdtEvent: the updates dispatched one after another.
RECURSIVE ApplyUpdates(_, _)
ApplyUpdates(text, updates) ==
    IF updates = <<>> THEN text
    ELSE ApplyUpdates(ApplyEdit(text, Head(updates)), Tail(updates))

CompactInit ==
    compaction = [text |-> <<>>, updates |-> <<>>, now |-> <<>>,
                  called |-> FALSE, result |-> <<>>]

\* The text the updates are applied to, one character after another.
TypeText(c) ==
    /\ ~compaction.called
    /\ compaction.updates = <<>>
    /\ Len(compaction.text) < MaxTextLen
    /\ compaction' = [compaction EXCEPT !.text = Append(compaction.text, c),
                                        !.now = Append(compaction.text, c)]
    /\ UNCHANGED <<docVars, fifoVars, poolVars, roomVars, viewVars, joinVars>>

\* new PlainUpdate(from, to, value), for a range of the text as the updates
\* before it leave it (the constructor throws when from > to).
PushUpdate(from, to, value) ==
    /\ ~compaction.called
    /\ Len(compaction.updates) < MaxUpdates
    /\ from <= to
    /\ to <= Len(compaction.now)
    /\ compaction' = [compaction EXCEPT
                         !.updates = Append(compaction.updates, PlainUpdate(from, to, value)),
                         !.now = ApplyEdit(compaction.now, PlainUpdate(from, to, value))]
    /\ UNCHANGED <<docVars, fifoVars, poolVars, roomVars, viewVars, joinVars>>

\* compactPlainUpdates(updates)
CompactCall ==
    /\ ~compaction.called
    /\ compaction' = [compaction EXCEPT !.called = TRUE,
                                        !.result = CompactPlainUpdates(compaction.updates)]
    /\ UNCHANGED <<docVars, fifoVars, poolVars, roomVars, viewVars, joinVars>>

\* ------------------------------------------------------------------------
\* The specifications
\* ------------------------------------------------------------------------

vars == <<docVars, fifoVars, poolVars, roomVars, viewVars, joinVars, compactVars>>

Init ==
    DocInit /\ FifoInit /\ PoolInit /\ RoomInit /\ ViewInit /\ JoinInit /\ CompactInit

Next ==
    \/ \E events \in Batches : ApplyEventsCall(events)
    \/ \E from \in Positions(document), to \in Positions(document), value \in Values :
            ApplyPlainUpdateCall(from, to, value)

NextCache ==
    \/ \E events \in Batches : ApplyEventsCall(events)
    \/ \E from \in Positions(document), to \in Positions(document), value \in Values :
            ApplyPlainUpdateCall(from, to, value)
    \/ \E position \in 0 .. Len(document.entries) + 1 : GetPrefixLengthCall(position)

NextFifo == AliceEdit \/ BobEdit \/ AliceDeliver \/ BobDeliver

NextPool ==
    \/ \E s \in PoolEditors : PoolEdit(s)
    \/ \E s \in PoolSites : PoolApply(s)

NextRoom ==
    \/ \E s \in RoomSites : OnViewUpdate(s)
    \/ \E s \in RoomSites : ServerReceive(s)
    \/ \E s \in RoomSites : OnCrdtEvents(s)

NextView ==
    \/ \E events \in BootstrapLogs : Mounted(events)
    \/ SocketOpen
    \/ \E msg \in ServerMessages : SocketMessage(msg)
    \/ SocketClose
    \/ SocketError
    \/ PingChecker
    \/ \E name \in ViewNames : SubmitName(name)
    \/ \E changes \in Transactions(view.editor, view.siteId) : UserEdit(changes)
    \/ \E visible \in BOOLEAN : VisibilityChange(visible)

NextJoin ==
    \/ \E n \in 1 .. MaxAppend : RoomAppend(n)
    \/ Fetch
    \/ Replay
    \/ ServerOpen
    \/ Receive

NextCompact ==
    \/ \E c \in {"x", "y"} : TypeText(c)
    \/ \E from \in 0 .. Len(compaction.now), to \in 0 .. Len(compaction.now) :
          \E value \in ValuesOf(BobSite) : PushUpdate(from, to, value)
    \/ CompactCall

\* One replica driven through its public interface.
Spec == Init /\ [][Next]_vars

\* One replica driven through its public interface, getPrefixLength included.
SpecCache == Init /\ [][NextCache]_vars

\* Two replicas and their FIFO queues.
SpecFifo == Init /\ [][NextFifo]_vars

\* Replicas applying sent operations in any order.
SpecPool == Init /\ [][NextPool]_vars

\* Three clients and the room's event log.
SpecRoom == Init /\ [][NextRoom]_vars

\* A client joining a room whose log grows.
SpecJoin == Init /\ [][NextJoin]_vars

\* One room view, its socket, its timer and its user.
SpecView == Init /\ [][NextView]_vars

\* compactPlainUpdates called on a list of plain updates.
SpecCompact == Init /\ [][NextCompact]_vars

\* ------------------------------------------------------------------------
\* Properties
\* ------------------------------------------------------------------------

\* Whether gid is the gid of an entry of d, visible or not.
Present(d, gid) == \E i \in 1 .. Len(d.entries) : d.entries[i].gid = gid

\* The index of the entry of d with this gid (0 when there is none).
IndexOf(d, gid) ==
    IF Present(d, gid)
    THEN CHOOSE i \in 1 .. Len(d.entries) : d.entries[i].gid = gid
    ELSE 0

HasTombstone(d) == \E i \in 1 .. Len(d.entries) : ~d.entries[i].visible

SitesOf(d) == {d.entries[i].gid.siteId : i \in 1 .. Len(d.entries)}

\* The replicated state of two replicas is the same (their lookup hints and
\* position caches may differ).
SameReplica(a, b) ==
    /\ a.entries = b.entries
    /\ a.appliedOps = b.appliedOps
    /\ a.maxCounter = b.maxCounter

\* C1: two replicas with distinct siteIds that edit locally through
\* applyPlainUpdate and exchange the emitted operations through FIFO queues,
\* delivered by applyEvents in arbitrary batches interleaved with further
\* edits, have the same getText() whenever both queues are fully delivered.
ThmC1 ==
    (aliceQueue = <<>> /\ bobQueue = <<>>)
        => GetText(aliceDocument) = GetText(bobDocument)

\* Both replicas edited, everything was delivered, and the common document
\* holds entries of both sites, a tombstone and visible text.
WitC1 ==
    /\ aliceQueue = <<>> /\ bobQueue = <<>>
    /\ edits = MaxEdits
    /\ SitesOf(aliceDocument) = {AliceSite, BobSite}
    /\ SitesOf(bobDocument) = {AliceSite, BobSite}
    /\ HasTombstone(aliceDocument)
    /\ Len(GetText(bobDocument)) >= 2

\* C2: any two replicas that applied the same set of operations, in any
\* order and any number of times each, have the same sequence of entries
\* (gids, characters and visibility) and so the same getText().
ThmC2 ==
    \A s \in PoolSites, t \in PoolSites :
        replicas[s].appliedOps = replicas[t].appliedOps
            => /\ replicas[s].entries = replicas[t].entries
               /\ GetText(replicas[s]) = GetText(replicas[t])

\* Two editors and the observer applied the same operations: inserts of both
\* editors and a delete.
WitC2 ==
    /\ poolEdits = MaxPoolEdits
    /\ \A s \in PoolSites : replicas[s].appliedOps = replicas[0].appliedOps
    /\ SitesOf(replicas[2]) = PoolEditors
    /\ Len(replicas[2].entries) >= 2

\* C3: in a room of three clients that apply their edits locally and send
\* them, with the server appending to the log in arrival order and forwarding
\* to every other session in append order without echo, all client replicas
\* have the same text once every sent operation has been delivered (and no
\* client was terminated by an exception).
ThmC3 ==
    (\A s \in RoomSites : uplink[s] = <<>> /\ downlink[s] = <<>>)
        => \A s \in RoomSites, t \in RoomSites :
               /\ clients[s].roomState = "editing"
               /\ GetText(clients[s].document) = GetText(clients[t].document)

\* Three clients edited, each one's operations are in the log, and all of it
\* was delivered.
WitC3 ==
    /\ \A s \in RoomSites : uplink[s] = <<>> /\ downlink[s] = <<>>
    /\ roomEdits = MaxRoomEdits
    /\ {log[k].gid.siteId : k \in 1 .. Len(log)} = RoomSites
    /\ \A s \in RoomSites : Len(clients[s].document.entries) >= 3

\* A call that was ignored: it returned, with no plain update, and left the
\* entries, their visibility, the applied set and maxCounter as they were.
Ignored(r, d) == r.ok /\ r.out = <<>> /\ SameReplica(r.doc, d)

\* C4: applying an operation that was already applied (an insert whose gid
\* was applied, whatever anchor and character it carries now, or a delete of
\* a gid already deleted) returns no plain update and leaves entries,
\* visibility, appliedOps and maxCounter as the first application left them.
ThmC4 ==
    /\ \A g \in AllGids, a \in AllGids \cup {NullGid} :
           OpStr(INSERT_OPERATION, g) \in document.appliedOps
               => /\ Ignored(Insert(document, CharOf(g), g, a), document)
                  /\ Ignored(ApplyEvents(document,
                         <<CRDTEvent(INSERT_OPERATION, g, CharOf(g), a)>>), document)
    /\ \A g \in AllGids :
           OpStr(DELETE_OPERATION, g) \in document.appliedOps
               => /\ Ignored(Delete(document, g), document)
                  /\ Ignored(ApplyEvents(document,
                         <<CRDTEvent(DELETE_OPERATION, g, NullChar, NullGid)>>), document)

\* The last call was applyEvents with an operation applied before (it
\* returned nothing), on a document with a tombstone and visible text.
WitC4 ==
    /\ last.op = "applyEvents" /\ last.ok /\ last.n = 0
    /\ HasTombstone(document)
    /\ GetText(document) # <<>>
    /\ \E g \in RemoteGids : OpStr(INSERT_OPERATION, g) \in document.appliedOps
    /\ \E g \in AllGids : OpStr(DELETE_OPERATION, g) \in document.appliedOps

\* The call returned and the text is the one expected.
Yields(r, text) == r.ok /\ GetText(r.doc) = text

\* C5: for every replica state with visible text T and every valid edit
\* (0 <= from <= to <= |T|), for either siteId, applyPlainUpdate returns and
\* getText() is T[0..from) + value + T[to..) afterwards, tombstones and
\* entries of other sites included.
ThmC5 ==
    \A siteId \in {LocalSite} \cup RemoteSites :
        \A e \in ValidEdits(document, siteId) :
            Yields(ApplyPlainUpdate(document, e[1], e[2], e[3], siteId),
                   ApplyEdit(GetText(document), PlainUpdate(e[1], e[2], e[3])))

\* The last call was a local replace (it deleted and inserted) on a document
\* with a tombstone and a visible entry of another site.
WitC5 ==
    /\ last.op = "applyPlainUpdate" /\ last.ok /\ last.n >= 2
    /\ HasTombstone(document)
    /\ \E i \in 1 .. Len(document.entries) :
           document.entries[i].visible /\ document.entries[i].gid.siteId \in RemoteSites
    /\ \E i \in 1 .. Len(document.entries) :
           document.entries[i].visible /\ document.entries[i].gid.siteId = LocalSite

\* The events of a local edit, replayed on another replica, give the text
\* of the replica that made the edit.
Replayed(s, d) == s.ok /\ GetText(s.doc) = GetText(d)

Replays(r, other) == r.ok /\ Replayed(ApplyEvents(other, r.out), r.doc)

\* C6: for every plain edit (from, to, value) issued locally on a replica,
\* the operations applyPlainUpdate returns, applied with applyEvents to a
\* second replica that was identical before the edit, yield the first
\* replica's getText().
ThmC6 ==
    SameReplica(aliceDocument, bobDocument)
        => /\ \A e \in ValidEdits(aliceDocument, AliceSite) :
                  Replays(ApplyPlainUpdate(aliceDocument, e[1], e[2], e[3], AliceSite),
                          bobDocument)
           /\ \A e \in ValidEdits(bobDocument, BobSite) :
                  Replays(ApplyPlainUpdate(bobDocument, e[1], e[2], e[3], BobSite),
                          aliceDocument)

\* Two identical replicas with text, a tombstone and entries of both sites,
\* whose position caches differ, and an edit that both deletes and inserts.
WitC6 ==
    /\ SameReplica(aliceDocument, bobDocument)
    /\ aliceQueue = <<>> /\ bobQueue = <<>>
    /\ SitesOf(aliceDocument) = {AliceSite, BobSite}
    /\ HasTombstone(aliceDocument)
    /\ aliceDocument.cachedPosition # bobDocument.cachedPosition
    /\ \E e \in ValidEdits(aliceDocument, AliceSite) :
           Len(ApplyPlainUpdate(aliceDocument, e[1], e[2], e[3], AliceSite).out) >= 2

\* The plain updates a call returned, applied in turn to the text before
\* the call, give the text after it.
Reflects(r, d) == r.ok => ApplyUpdates(GetText(d), r.out) = GetText(r.doc)

\* C7: for every applyEvents(batch) that returns, the plain updates it
\* returns, applied one after another (each as replace [from, to) by value)
\* to the text before the call, give exactly the text after the call.
ThmC7 ==
    \A batch \in BatchesUpTo(MaxCheckedBatch) :
        Reflects(ApplyEvents(document, batch), document)

\* A batch of two new operations whose updates were merged into one replace.
MergedReplace(r) ==
    r.ok /\ Len(r.out) = 1 /\ r.out[1].to > r.out[1].from /\ r.out[1].value # <<>>

\* The document was built by applyEvents and has text; one batch of two
\* operations gives a merged replace, another gives two separate updates.
WitC7 ==
    /\ last.op = "applyEvents" /\ last.ok /\ last.n = 1
    /\ Len(GetText(document)) >= 2
    /\ \E batch \in BatchesUpTo(MaxCheckedBatch) :
           Len(batch) = 2 /\ MergedReplace(ApplyEvents(document, batch))
    /\ \E batch \in BatchesUpTo(MaxCheckedBatch) :
           Len(ApplyEvents(document, batch).out) = 2

\* C8: a delete not applied yet whose gid is not in the replica throws, an
\* insert not applied yet whose afterGid is given but not in the replica
\* throws, and an insert without afterGid does not throw.
ThmC8 ==
    /\ \A g \in AllGids :
           (OpStr(DELETE_OPERATION, g) \notin document.appliedOps /\ ~Present(document, g))
               => /\ ~Delete(document, g).ok
                  /\ ~ApplyEvents(document,
                         <<CRDTEvent(DELETE_OPERATION, g, NullChar, NullGid)>>).ok
    /\ \A g \in AllGids :
           OpStr(INSERT_OPERATION, g) \notin document.appliedOps
               => /\ \A a \in AllGids :
                         ~Present(document, a)
                             => /\ ~Insert(document, CharOf(g), g, a).ok
                                /\ ~ApplyEvents(document,
                                       <<CRDTEvent(INSERT_OPERATION, g, CharOf(g), a)>>).ok
                  /\ Insert(document, CharOf(g), g, NullGid).ok

\* The last call was an applyEvents that threw, on a document that has
\* entries, and both an absent gid and a present one exist.
WitC8 ==
    /\ last.op = "applyEvents" /\ ~last.ok
    /\ Len(document.entries) >= 2
    /\ \E g \in RemoteGids : ~Present(document, g)
                                /\ OpStr(INSERT_OPERATION, g) \notin document.appliedOps

\* C9: applyPlainUpdate(from, to, value, siteId) throws whenever from > to and
\* whenever the range [from, to) goes beyond the visible text, for every
\* value, empty or not.
CexC9 ==
    \A from \in Positions(document), to \in Positions(document), value \in Values :
        (from > to \/ from > Len(GetText(document)) \/ to > Len(GetText(document)))
            => ~ApplyPlainUpdate(document, from, to, value, LocalSite).ok

\* C10: for any two entries that were inserted with the same afterGid (both
\* at the head included), the one with the higher GlobalId is earlier in the
\* sequence, whatever order the two inserts were applied in.
ThmC10 ==
    \A e1 \in integrated, e2 \in integrated :
        (e1.afterGid = e2.afterGid /\ Compare(e1.gid, e2.gid) > 0)
            => /\ Present(document, e1.gid)
               /\ Present(document, e2.gid)
               /\ IndexOf(document, e1.gid) < IndexOf(document, e2.gid)

\* The insert applied last (the visible entry at the cached position) has a
\* sibling with a higher GlobalId that was there before it, and a third entry
\* stands between a sibling pair.
WitC10 ==
    /\ last.op = "applyEvents" /\ last.ok /\ last.n = 1
    /\ document.cachedPosition < Len(document.entries)
    /\ At(document, document.cachedPosition).visible
    /\ \E e1 \in integrated, e2 \in integrated :
           /\ e1.afterGid = e2.afterGid
           /\ Compare(e1.gid, e2.gid) > 0
           /\ e2.gid = At(document, document.cachedPosition).gid
    /\ \E e1 \in integrated, e2 \in integrated :
           /\ e1.afterGid = e2.afterGid
           /\ Compare(e1.gid, e2.gid) > 0
           /\ IndexOf(document, e2.gid) > IndexOf(document, e1.gid) + 1

\* One applyEvents call per event of the batch, in order; an exception ends
\* the sequence as it ends the batch.
RECURSIVE ApplyOneByOne(_, _, _)
ApplyOneByOneNext(r, events, k) ==
    IF r.ok THEN ApplyOneByOne(r.doc, events, k + 1)
    ELSE [doc |-> r.doc, ok |-> FALSE]

ApplyOneByOne(d, events, k) ==
    IF k > Len(events) THEN [doc |-> d, ok |-> TRUE]
    ELSE ApplyOneByOneNext(ApplyEvents(d, <<events[k]>>), events, k)

SameOutcome(r, s) ==
    /\ r.ok = s.ok
    /\ SameReplica(r.doc, s.doc)
    /\ GetText(r.doc) = GetText(s.doc)

\* C11: applyEvents(batch) leaves the replica with the same entries,
\* visibility, applied set and text as applying the events of the batch in
\* order through separate applyEvents calls (and throws when they do).
ThmC11 ==
    \A batch \in BatchesUpTo(MaxCheckedBatch) :
        SameOutcome(ApplyEvents(document, batch), ApplyOneByOne(document, batch, 1))

\* A batch of two events that only succeeds in its order: applied to the
\* document (built by applyEvents) it returns, reversed it throws.
WitC11 ==
    /\ last.op = "applyEvents" /\ last.ok
    /\ document.entries # <<>>
    /\ \E batch \in BatchesUpTo(MaxCheckedBatch) :
           /\ Len(batch) = 2
           /\ ApplyEvents(document, batch).ok
           /\ Len(ApplyEvents(document, batch).doc.entries) = Len(document.entries) + 2
           /\ ~ApplyEvents(document, <<batch[2], batch[1]>>).ok

\* No update of the sequence starts where the one before it ended (its newTo).
NoAdjacent(updates) ==
    \A k \in 1 .. Len(updates) - 1 : NewTo(updates[k]) # updates[k + 1].from

\* The updates applyEvents returns for the events of a local edit, on a
\* replica in the state the editor was in before the edit.
ReplayedUpdates(r, d) == ApplyEvents(d, r.out).out

\* C12: the plain updates applyEvents returns never hold two consecutive
\* updates where the second starts where the first ended; the events of one
\* contiguous local insertion give exactly one update (from, from, text) and
\* those of one contiguous deletion exactly one update (from, to, ""), on a
\* replica in the same prior state.
ThmC12 ==
    /\ \A batch \in BatchesUpTo(MaxCheckedBatch) :
           NoAdjacent(ApplyEvents(document, batch).out)
    /\ \A e \in ValidEdits(document, LocalSite) :
           /\ NoAdjacent(ReplayedUpdates(
                  ApplyPlainUpdate(document, e[1], e[2], e[3], LocalSite), document))
           /\ (e[1] = e[2] /\ e[3] # <<>>)
                  => ReplayedUpdates(
                         ApplyPlainUpdate(document, e[1], e[2], e[3], LocalSite), document)
                     = <<PlainUpdate(e[1], e[1], e[3])>>
           /\ (e[1] < e[2] /\ e[3] = <<>>)
                  => ReplayedUpdates(
                         ApplyPlainUpdate(document, e[1], e[2], e[3], LocalSite), document)
                     = <<PlainUpdate(e[1], e[2], <<>>)>>

\* A document with a tombstone between two visible entries (so a deletion of
\* both skips it, and an insertion of two characters fits), for which some
\* batch of two events gives two updates that are not adjacent.
WitC12 ==
    /\ last.ok
    /\ Len(document.entries) = 3
    /\ document.entries[1].visible
    /\ ~document.entries[2].visible
    /\ document.entries[3].visible
    /\ \E batch \in BatchesUpTo(MaxCheckedBatch) :
           Len(ApplyEvents(document, batch).out) = 2

\* The insert events among the events of a local edit.
InsertsOf(out) == {out[k] : k \in {j \in 1 .. Len(out) : IsInsert(out[j])}}

\* The gids of the inserts a local edit at site s emitted are of site s,
\* differ from one event to the next, are greater than every gid the replica
\* held before the edit, and are carried by no entry of any replica and by no
\* insert emitted before.
FreshGids(out, s) ==
    /\ \A j \in 1 .. Len(out), k \in 1 .. Len(out) :
           (IsInsert(out[j]) /\ IsInsert(out[k]) /\ j < k)
               => Compare(out[k].gid, out[j].gid) > 0
    /\ \A ev \in InsertsOf(out) :
           /\ ev.gid.siteId = s
           /\ \A i \in 1 .. Len(replicas[s].entries) :
                  Compare(ev.gid, replicas[s].entries[i].gid) > 0
           /\ \A t \in PoolSites : ~Present(replicas[t], ev.gid)
           /\ \A old \in sent : IsInsert(old) => old.gid # ev.gid

\* C13: every GlobalId applyPlainUpdate allocates is unique in the system:
\* with distinct siteIds, no two inserts generated anywhere carry the same
\* (counter, siteId), under any interleaving of local edits and deliveries,
\* and a fresh gid is greater than every gid already in the replica that
\* generates it.
ThmC13 ==
    /\ \A a \in sent, b \in sent :
           (IsInsert(a) /\ IsInsert(b) /\ a.gid = b.gid) => a = b
    /\ \A s \in PoolSites :
           \A e \in ValidEdits(replicas[s], s) :
               FreshGids(ApplyPlainUpdate(replicas[s], e[1], e[2], e[3], s).out, s)

\* Both editors inserted concurrently (their inserts carry the same counter),
\* each has integrated the other's insert, and a further edit allocates.
WitC13 ==
    /\ poolEdits = MaxPoolEdits
    /\ \E a \in sent, b \in sent :
           /\ IsInsert(a) /\ IsInsert(b)
           /\ a.gid.counter = b.gid.counter
           /\ a.gid.siteId # b.gid.siteId
    /\ \A s \in PoolEditors : SitesOf(replicas[s]) = PoolEditors
    /\ \E e \in ValidEdits(replicas[0], 0) :
           InsertsOf(ApplyPlainUpdate(replicas[0], e[1], e[2], e[3], 0).out) # {}

\* C14: for every insert the replica has integrated, either its afterGid is
\* absent (an insert at the head) or an entry with that GlobalId is in the
\* replica's entries; the inserted entry itself is there too.
ThmC14 ==
    \A e \in integrated :
        /\ Present(document, e.gid)
        /\ e.afterGid = NullGid \/ Present(document, e.afterGid)

\* The replica integrated an insert at the head and one after an entry, and
\* the insert applied last (the visible entry at the cached position) was
\* anchored on an entry that is a tombstone.
WitC14 ==
    /\ last.op = "applyEvents" /\ last.ok /\ last.n = 1
    /\ document.cachedPosition < Len(document.entries)
    /\ At(document, document.cachedPosition).visible
    /\ \E e \in integrated : e.afterGid = NullGid
    /\ \E e \in integrated :
           /\ e.gid = At(document, document.cachedPosition).gid
           /\ e.afterGid # NullGid
           /\ Present(document, e.afterGid)
           /\ ~document.entries[IndexOf(document, e.afterGid)].visible

\* The call returned, emitted one event, and changed the visible length and
\* the number of entries by these amounts.
Grows(r, d, byLength, byEntries) ==
    /\ r.ok
    /\ Len(r.out) = 1
    /\ Len(GetText(r.doc)) = Len(GetText(d)) + byLength
    /\ Len(r.doc.entries) = Len(d.entries) + byEntries

\* C15: a local insert of one character, applyPlainUpdate(p, p, c), makes
\* the visible text exactly one longer, and a local delete of one visible
\* character, applyPlainUpdate(p, p + 1, ""), makes it exactly one shorter.
ThmC15 ==
    \A siteId \in {LocalSite} \cup RemoteSites :
        /\ \A p \in 0 .. Len(GetText(document)) :
               Grows(ApplyPlainUpdate(document, p, p, <<Letters(siteId)[1]>>, siteId),
                     document, 1, 1)
        /\ \A p \in 0 .. Len(GetText(document)) - 1 :
               Grows(ApplyPlainUpdate(document, p, p + 1, <<>>, siteId),
                     document, -1, 0)

\* The last call was a local delete of one character (one event, and the
\* entry at the cached position is now invisible), on a document that keeps
\* visible text and held a tombstone before.
WitC15 ==
    /\ last.op = "applyPlainUpdate" /\ last.ok /\ last.n = 1
    /\ document.cachedPosition < Len(document.entries)
    /\ ~At(document, document.cachedPosition).visible
    /\ GetText(document) # <<>>
    /\ \E i \in 1 .. Len(document.entries) :
           i # document.cachedPosition + 1 /\ ~document.entries[i].visible

\* Every entry of pre is an entry of post with the same gid and character,
\* in the same relative order, and invisible in post if it was in pre.
Preserved(pre, post) ==
    /\ \A i \in 1 .. Len(pre.entries) :
           /\ Present(post, pre.entries[i].gid)
           /\ post.entries[IndexOf(post, pre.entries[i].gid)].c = pre.entries[i].c
           /\ ~pre.entries[i].visible
                  => ~post.entries[IndexOf(post, pre.entries[i].gid)].visible
    /\ \A i \in 1 .. Len(pre.entries), j \in 1 .. Len(pre.entries) :
           i < j => IndexOf(post, pre.entries[i].gid) < IndexOf(post, pre.entries[j].gid)

\* C16: across any insert, delete, applyEvents or applyPlainUpdate call,
\* returning or throwing, no entry leaves the entries sequence, no entry's
\* character or gid changes, and no invisible entry becomes visible again.
ThmC16 == [][Preserved(document, document')]_vars

\* An applyPlainUpdate that threw after it had deleted (it left a tombstone),
\* on a full document.
WitC16 ==
    /\ last.op = "applyPlainUpdate" /\ ~last.ok
    /\ Len(document.entries) = MaxEntries
    /\ HasTombstone(document)
    /\ GetText(document) # <<>>

\* ------------------------------------------------------------------------
\* Compaction.  The server that compacts is not part of the sources; the
\* compacted log is written from the compaction protocol of the Room Hub:
\* for each visible entry in order, one insert with afterGid = the gid of the
\* previous visible entry.  Its replay is applyEvents on a new CRDTDocument.
\* ------------------------------------------------------------------------

RECURSIVE CompactedFrom(_, _, _, _)
CompactedFrom(entries, k, previous, result) ==
    IF k > Len(entries) THEN result
    ELSE IF entries[k].visible
    THEN CompactedFrom(entries, k + 1, entries[k].gid,
             Append(result, CRDTEvent(INSERT_OPERATION, entries[k].gid,
                                      entries[k].c, previous)))
    ELSE CompactedFrom(entries, k + 1, previous, result)

CompactedLog(d) == CompactedFrom(d.entries, 1, NullGid, <<>>)

\* The replica a client builds from the compacted log at bootstrap.
Rebuilt(d) == ApplyEvents(NewDocument, CompactedLog(d))

\* C17: compaction preserves text: a fresh replica that replays the
\* compacted log of a replica (one insert per visible entry in order, with
\* its gid and character, anchored on the previous visible entry) has the
\* replica's getText(), and the replay never fails.
ThmC17 == Replayed(Rebuilt(document), document)

\* A full document with visible entries on both sides of a tombstone and
\* entries of both sites, the last of them integrated from outside.
WitC17 ==
    /\ last.op = "applyEvents" /\ last.ok /\ last.n = 1
    /\ Len(document.entries) = MaxEntries
    /\ document.entries[1].visible
    /\ ~document.entries[2].visible
    /\ document.entries[3].visible
    /\ SitesOf(document) = {LocalSite} \cup RemoteSites

\* Every entry of the replica has been deleted.
AllDeleted(d) ==
    \A i \in 1 .. Len(d.entries) :
        OpStr(DELETE_OPERATION, d.entries[i].gid) \in d.appliedOps

\* C18: the compacted log holds exactly one insert per visible entry (its
\* gid and character, in order) and no delete; a log whose inserted
\* characters were all deleted compacts to the empty log, whose replay
\* gives the empty text.
ThmC18 ==
    /\ Len(CompactedLog(document)) = Len(GetText(document))
    /\ \A k \in 1 .. Len(CompactedLog(document)) :
           /\ IsInsert(CompactedLog(document)[k])
           /\ CompactedLog(document)[k].char = GetText(document)[k]
           /\ Present(document, CompactedLog(document)[k].gid)
           /\ document.entries[IndexOf(document, CompactedLog(document)[k].gid)].visible
           /\ \A j \in 1 .. k - 1 :
                  CompactedLog(document)[j].gid # CompactedLog(document)[k].gid
    /\ AllDeleted(document)
           => /\ CompactedLog(document) = <<>>
              /\ Rebuilt(document).ok
              /\ GetText(Rebuilt(document).doc) = <<>>

\* A full document whose entries, of both sites, were all deleted, the last
\* of them by a local edit.
WitC18 ==
    /\ last.op = "applyPlainUpdate" /\ last.ok /\ last.n >= 1
    /\ Len(document.entries) = MaxEntries
    /\ AllDeleted(document)
    /\ SitesOf(document) = {LocalSite} \cup RemoteSites

\* A JSON envelope with exactly one top-level key, crdtEvents or sitePresence.
IsEnvelope(m) ==
    /\ m.json
    /\ Cardinality(m.keys) = 1
    /\ m.keys \subseteq {"crdtEvents", "sitePresence"}

\* C19, as stated: every message the client sends on the session is a JSON
\* envelope with exactly one top-level key, crdtEvents or sitePresence.
CexC19 == \A m \in outbox : IsEnvelope(m)

\* C19, amended: every message the client sends on the session is either
\* the text "Hello" (which socket.onopen sends) or a JSON envelope with
\* exactly one top-level key, crdtEvents or sitePresence.
ThmC19 == \A m \in outbox : m = HelloText \/ IsEnvelope(m)

\* The view sent the greeting, its presence after the name was entered, a
\* presence with visible = false, and the events of a user edit.
WitC19 ==
    /\ HelloText \in outbox
    /\ \E m \in outbox : m.keys = {"sitePresence"} /\ m.visible
    /\ \E m \in outbox : m.keys = {"sitePresence"} /\ ~m.visible
    /\ \E m \in outbox : m.keys = {"crdtEvents"} /\ Len(m.events) >= 2

VisibleBefore(d, p) == Len(TextOf(SubSeq(d.entries, 1, p)))

\* C30: in every reachable replica state, after calls that returned and calls
\* that threw, 0 <= cachedPosition <= entries.length and cachedLength is the
\* number of visible entries before cachedPosition, and getPrefixLength(p)
\* returns the number of visible entries before index p.
ThmC30 ==
    /\ document.cachedPosition \in 0 .. Len(document.entries)
    /\ document.cachedLength = VisibleBefore(document, document.cachedPosition)
    /\ \A p \in 0 .. Len(document.entries) :
          GetPrefixLength(document, p).len = VisibleBefore(document, p)

\* A call threw on a replica whose cache lies past a tombstone and a visible entry.
WitC30 ==
    /\ ~last.ok
    /\ document.cachedPosition >= 2
    /\ document.cachedLength >= 1
    /\ document.cachedLength < document.cachedPosition
    /\ document.cachedPosition < Len(document.entries)

\* A crdtEvents message with these events.
CrdtEventsMessage(events) == ServerMessage("crdtEvents", NoSite, events, NoName, FALSE)

\* The replica of the view throws on these events.
FailsOn(events) == ~ApplyEvents(view.document, events).ok

\* C21: whenever the replica of the view fails while it integrates remote
\* operations that name an unknown GlobalId, in the bootstrap log replayed by
\* mounted() or in a crdtEvents message of the session, the view ends in the
\* terminated state.
CexC21 ==
    [][\A events \in BootstrapLogs \cup ViewBatches :
          (FailsOn(events) /\ (Mounted(events) \/ SocketMessage(CrdtEventsMessage(events))))
              => view'.roomState = "terminated"]_vars

\* A step that is a transport fault: the close or error event of the socket,
\* the tick of the ping timer that finds the heartbeat late, a message with
\* no known top-level key, or a message whose processing throws.
TransportFault ==
    \/ SocketClose
    \/ SocketError
    \/ PingChecker /\ view.sinceHeartbit + 1 > 2 * HeartbitInterval
    \/ \E msg \in ServerMessages :
          /\ SocketMessage(msg)
          /\ msg.key = "unknown" \/ ~OnSocketMessage(view, msg).ok

\* C22: each transport fault moves a view that is not terminated to
\* terminated with compactionRequired = false, an empty presence table and
\* siteId = null.
ThmC22 ==
    [][(view.roomState # "terminated" /\ TransportFault)
          => /\ view'.roomState = "terminated"
             /\ ~view'.compactionRequired
             /\ view'.sites = {}
             /\ view'.siteId = NoSite]_vars

\* The heartbeat came late for a view that had entered the room, and the
\* timer terminated it.
WitC22 ==
    /\ view.roomState = "terminated"
    /\ view.name # NoName
    /\ view.noHeartbit > 2 * HeartbitInterval
    /\ view.socket = "closing"
    /\ ~view.compactionRequired
    /\ \E m \in outbox : m.keys = {"crdtEvents"}

\* The compactionRequired message of the server.
CompactionRequiredMessage == ServerMessage("compactionRequired", 1, <<>>, NoName, FALSE)

\* C23: a view that is not terminated and receives compactionRequired
\* becomes terminated with the compactionRequired flag set; the close or
\* error event of the socket that follows leaves the flag set; a view that
\* was terminated for another reason keeps its flag false when the message
\* arrives.
ThmC23 ==
    [][/\ (view.roomState # "terminated" /\ SocketMessage(CompactionRequiredMessage))
            => (view'.roomState = "terminated" /\ view'.compactionRequired)
       /\ (view.roomState = "terminated" /\ (SocketClose \/ SocketError))
            => /\ view'.roomState = "terminated"
               /\ view'.compactionRequired = view.compactionRequired
       /\ (view.roomState = "terminated" /\ ~view.compactionRequired
               /\ SocketMessage(CompactionRequiredMessage))
            => (view'.roomState = "terminated" /\ ~view'.compactionRequired)]_vars

\* The close event came after compactionRequired terminated an editing view.
WitC23 ==
    /\ view.roomState = "terminated"
    /\ view.compactionRequired
    /\ view.socket = "closed"
    /\ view.name # NoName

\* C24 as stated: after the socket opened, the ping timer terminates the
\* view exactly when no inbound message of any kind arrived for more than
\* 2 x heartbitInterval seconds.
CexC24 ==
    [][(PingChecker /\ view.roomState # "terminated")
          => (view'.roomState = "terminated" <=> view.quiet + 1 > 2 * HeartbitInterval)]_vars

\* C24, amended: after the socket opened, the ping timer terminates the view
\* exactly when no heartbit message arrived for more than
\* 2 x heartbitInterval seconds; inbound messages of other kinds do not count.
ThmC24 ==
    [][(PingChecker /\ view.roomState # "terminated")
          => (view'.roomState = "terminated"
                  <=> view.noHeartbit + 1 > 2 * HeartbitInterval)]_vars

\* The timer terminated an editing view one second after a message arrived.
WitC24 ==
    /\ view.roomState = "terminated"
    /\ ~view.pingChecker
    /\ view.socket = "closing"
    /\ view.name # NoName
    /\ view.quiet = 1
    /\ view.noHeartbit = 2 * HeartbitInterval + 1

\* The text a user transaction asks for is longer than the text before it
\* and longer than documentLimit.
GrowsPastLimit(text, changes) ==
    /\ Len(NewDoc(text, changes)) > Len(text)
    /\ Len(NewDoc(text, changes)) > DocumentLimit

\* C25: a user edit that would grow the text past documentLimit is refused:
\* the editor, the replica and what was sent stay as they were; a user edit
\* that does not make the text longer is applied to the editor whatever the
\* length, and so are the updates of remote operations, from the bootstrap
\* log or a crdtEvents message, that the view accepted.
ThmC25 ==
    [][/\ viewEdits' # viewEdits =>
             \A changes \in Transactions(view.editor, view.siteId) :
                /\ (GrowsPastLimit(view.editor, changes) /\ UserEdit(changes))
                      => (view' = view /\ outbox' = outbox)
                /\ (Len(NewDoc(view.editor, changes)) <= Len(view.editor))
                      => (view'.editor = NewDoc(view.editor, changes)
                              \/ ~UserEdit(changes))
       /\ viewEdits' = viewEdits =>
             \A events \in ViewBatches \cup BootstrapLogs :
                (/\ Mounted(events) \/ SocketMessage(CrdtEventsMessage(events))
                 /\ DispatchCrdtEvent(view, ApplyEvents(view.document, events)).ok)
                      => view'.editor
                             = ApplyUpdates(view.editor,
                                            ApplyEvents(view.document, events).out)]_vars

\* A remote insert took the text past the limit, and of the user's edits one
\* was sent and one was refused.
WitC25 ==
    /\ view.roomState = "editing"
    /\ view.socket = "open"
    /\ Len(view.editor) > DocumentLimit
    /\ view.editor = GetText(view.document)
    /\ viewEdits = 2
    /\ Cardinality({m \in outbox : m.keys = {"crdtEvents"}}) = 1

\* A step in which a handler of the view ran to its end: the bootstrap
\* replay of mounted(), the handling of a socket message, or a user
\* transaction (refused by the changeFilter, or processed by onViewUpdate).
Completed ==
    \/ \E events \in BootstrapLogs :
          Mounted(events) /\ DispatchCrdtEvent(view, ApplyEvents(view.document, events)).ok
    \/ \E msg \in ServerMessages : SocketMessage(msg) /\ OnSocketMessage(view, msg).ok
    \/ \E changes \in Transactions(view.editor, view.siteId) :
          UserEdit(changes) /\ Edited(view, changes).ok

\* C27: after every handler of the view that ran to its end (a remote
\* crdtEvents batch, the bootstrap replay, a user edit processed by
\* onViewUpdate, with one change or with several changes in one
\* transaction), the text of the editor is getText() of the replica.
CexC27 == [][Completed => view'.editor = GetText(view'.document)]_vars

\* The setSiteId messages of the server.
SetSiteIdMessages == {ServerMessage("setSiteId", s, <<>>, NoName, FALSE) : s \in ViewSiteIds}

ThmC29 ==
    /\ [](view.roomState = "editing" => view.siteId \in ViewSiteIds)
    /\ [][/\ viewEdits' # viewEdits => view.roomState = "editing"
          /\ \A m \in outbox' \ outbox :
                \A k \in 1 .. Len(m.events) :
                   IsInsert(m.events[k])
                       => /\ view.siteId \in ViewSiteIds
                          /\ m.events[k].gid.siteId = view.siteId]_vars

\* An editing view has sent an insert under its siteId.
WitC29 ==
    /\ view.roomState = "editing"
    /\ view.siteId \in ViewSiteIds
    /\ \E m \in outbox :
          \E k \in 1 .. Len(m.events) :
             IsInsert(m.events[k]) /\ m.events[k].gid.siteId = view.siteId

\* The operations of a sequence of batches, in order.
RECURSIVE Flatten(_)
Flatten(batches) ==
    IF batches = <<>> THEN <<>> ELSE Head(batches) \o Flatten(Tail(batches))

\* C26: across bootstrap and session the operations of the room log are
\* applied to the joining client's replica each once and in log order: the
\* session is opened with the number of bootstrap events as offset, what the
\* client applied followed by what is on its way to it is a prefix of the
\* log, and the whole log once the session is open, so operations appended
\* between the bootstrap read and the open are streamed and nothing is
\* delivered twice; the replica never throws and holds what a replay of the
\* applied operations gives.
ThmC26 ==
    /\ joiner.phase \notin {"failed", "terminated"}
    /\ joiner.phase \in {"connecting", "open"} => joiner.offset = Len(joiner.events)
    /\ joiner.applied \o Flatten(joiner.inbox)
          = SubSeq(log, 1, Len(joiner.applied) + Len(Flatten(joiner.inbox)))
    /\ joiner.phase = "open" => joiner.applied \o Flatten(joiner.inbox) = log
    /\ joiner.document.entries = ApplyEvents(NewDocument, joiner.applied).doc.entries

\* The client replayed a bootstrap log, operations appended before the open
\* were pushed at the open, others came later, and all of the log is applied.
WitC26 ==
    /\ joiner.phase = "open"
    /\ joiner.offset >= 1
    /\ joiner.backlog >= 1
    /\ joiner.offset + joiner.backlog < Len(log)
    /\ joiner.inbox = <<>>
    /\ joiner.applied = log

\* C31: the position cache is only a hint: for two replicas with the same
\* entries, applied set and maxCounter, whatever their cachedPosition,
\* cachedLength and lastEditedPosition, getPosition(n) returns the same
\* entry index and applyPlainUpdate(from, to, value, siteId) emits the same
\* operations (same gids, chars and afterGids).
CexC31 ==
    SameReplica(aliceDocument, bobDocument) =>
        /\ \A n \in 0 .. Len(GetText(aliceDocument)) :
              GetPosition(aliceDocument, n).pos = GetPosition(bobDocument, n).pos
        /\ \A e \in ValidEdits(aliceDocument, AliceSite) :
              ApplyPlainUpdate(aliceDocument, e[1], e[2], e[3], AliceSite).out
                 = ApplyPlainUpdate(bobDocument, e[1], e[2], e[3], AliceSite).out

\* The keys of applied inserts in the applied set of d.
InsertKeys(d) == d.appliedOps \cap {OpStr(INSERT_OPERATION, g) : g \in AllGids}

\* The indices (0-based) of the entries of d that carry gid.
IndicesOf(d, gid) == {i \in 0 .. Len(d.entries) - 1 : At(d, i).gid = gid}

\* C32: in every reachable replica state the entries have pairwise distinct
\* gids and there are as many entries as applied insert keys, so findGid(gid)
\* returns the one index of the entry with that gid, or -1 when there is
\* none, whatever the value of lastEditedPosition.
ThmC32 ==
    /\ \A i, j \in 0 .. Len(document.entries) - 1 :
          At(document, i).gid = At(document, j).gid => i = j
    /\ document.appliedOps \subseteq
          {OpStr(t, g) : t \in {INSERT_OPERATION, DELETE_OPERATION}, g \in AllGids}
    /\ Len(document.entries) = Cardinality(InsertKeys(document))
    /\ document.lastEditedPosition \in -1 .. Len(document.entries) - 1
    /\ \A g \in AllGids :
          \A hint \in -1 .. Len(document.entries) :
             LET pos == FindGid([document EXCEPT !.lastEditedPosition = hint], g).pos IN
             IF IndicesOf(document, g) = {} THEN pos = -1
             ELSE IndicesOf(document, g) = {pos}

\* A replica of three entries, one a tombstone, whose scan hint points past
\* the entry of a local gid, so that finding it takes the second loop.
WitC32 ==
    /\ Len(document.entries) = 3
    /\ HasTombstone(document)
    /\ \E g \in AllGids :
          /\ g.siteId = LocalSite
          /\ IndicesOf(document, g) # {}
          /\ \A i \in IndicesOf(document, g) : i < document.lastEditedPosition - 1

\* The batches of no or one event.
ShortBatches == BatchesUpTo(MaxBatch) \cup {<<>>}

\* C33: when an operation of an applyEvents batch fails, the operations
\* before it in the batch stay applied and the failing and the later ones are
\* not applied: the failing insert or delete leaves entries, visibility flags
\* and the applied set as they were just before it (maxCounter is raised to
\* the counter it carries), and applyEvents throws with the replica in that
\* state.
ThmC33 ==
    \A p \in ShortBatches :
        LET before == ApplyEventsFrom(document, p, 1, <<>>) IN
        before.ok =>
            \A f \in Events :
                LET failing == ApplyEvent(before.doc, f) IN
                ~failing.ok =>
                    /\ failing.doc.entries = before.doc.entries
                    /\ failing.doc.appliedOps = before.doc.appliedOps
                    /\ failing.doc.maxCounter = Max(before.doc.maxCounter, f.gid.counter)
                    /\ \A l \in ShortBatches :
                          LET r == ApplyEvents(document, p \o <<f>> \o l) IN
                          /\ ~r.ok
                          /\ r.out = <<>>
                          /\ r.doc = failing.doc

\* An applyEvents call has thrown, and in the state it left there is a batch
\* whose first event integrates a new entry, whose second event fails and
\* raises maxCounter, and whose third event would have applied.
WitC33 ==
    /\ last.op = "applyEvents"
    /\ ~last.ok
    /\ HasTombstone(document)
    /\ \E p, f, l \in Events :
          LET before == ApplyEvent(document, p)
              failing == ApplyEvent(before.doc, f)
              later == ApplyEvent(failing.doc, l)
          IN  /\ before.ok
              /\ Len(before.doc.entries) = Len(document.entries) + 1
              /\ ~failing.ok
              /\ failing.doc.maxCounter > before.doc.maxCounter
              /\ later.ok
              /\ later.doc.entries # failing.doc.entries
              /\ ApplyEvents(document, <<p, f, l>>).doc.entries = before.doc.entries

\* C34: applyPlainUpdate is all-or-nothing: when it fails because the range
\* is invalid (from beyond the visible length, or fewer than to - from visible
\* characters after from), the entries with their visibility flags, the
\* applied set and the text of the replica are what they were before the
\* call, so that no operation is applied locally and left unemitted.
CexC34 ==
    \A from \in Positions(document), to \in Positions(document), value \in Values :
        LET r == ApplyPlainUpdate(document, from, to, value, LocalSite) IN
        (from <= to /\ ~r.ok) =>
            /\ r.doc.entries = document.entries
            /\ r.doc.appliedOps = document.appliedOps
            /\ GetText(r.doc) = GetText(document)

\* The index insert() starts its walk at: that of the anchor, -1 without one.
AnchorIndex(d, afterGid) == IF afterGid = NullGid THEN -1 ELSE FindGid(d, afterGid).pos

\* The events of a local edit at from, integrated one after another on the
\* replica the edit was made on: every one applies, the walk of every insert
\* stays at its anchor, the new entry is the one after the anchor, and the
\* plain update of the i-th insert is (from + i, from + i, char).
RECURSIVE AssertedFrom(_, _, _, _, _)
AssertedFrom(d, events, k, from, i) ==
    IF k > Len(events) THEN TRUE
    ELSE LET r == ApplyEvent(d, events[k]) IN
         /\ r.ok
         /\ IsInsert(events[k]) =>
               /\ Walk(d, AnchorIndex(d, events[k].afterGid), events[k].gid)
                     = AnchorIndex(d, events[k].afterGid)
               /\ IndicesOf(r.doc, events[k].gid)
                     = {AnchorIndex(d, events[k].afterGid) + 1}
               /\ r.out = <<PlainUpdate(from + i, from + i, <<events[k].char>>)>>
         /\ AssertedFrom(r.doc, events, k + 1, from, IF IsInsert(events[k]) THEN i + 1 ELSE i)

\* C35: the assertion in applyPlainUpdate always holds: for a valid edit the
\* i-th character of value is integrated immediately after its anchor entry
\* (the tie-break walk skips no entry) and its plain update has
\* from = to = from + i, in every reachable replica state, those with
\* tombstones and remote characters included.
ThmC35 ==
    \A siteId \in {LocalSite} \cup RemoteSites :
        \A e \in ValidEdits(document, siteId) :
            LET r == ApplyPlainUpdate(document, e[1], e[2], e[3], siteId) IN
            /\ r.ok
            /\ r.asserted
            /\ AssertedFrom(document, r.out, 1, e[1], 0)

\* The last call was a local edit that inserted two characters, which sit
\* next to each other in front of the tombstone of a remote character.
WitC35 ==
    /\ last.op = "applyPlainUpdate" /\ last.ok /\ last.n >= 2
    /\ \E i \in 0 .. Len(document.entries) - 3 :
          /\ At(document, i).gid.siteId = LocalSite
          /\ At(document, i + 1).gid.siteId = LocalSite
          /\ At(document, i + 1).gid.counter = At(document, i).gid.counter + 1
          /\ At(document, i + 1).gid.counter = document.maxCounter
          /\ At(document, i + 2).gid.siteId \in RemoteSites
          /\ ~At(document, i + 2).visible

\* The gids of the visible entries, in sequence order.
RECURSIVE VisibleGids(_)
VisibleGids(entries) ==
    IF entries = <<>> THEN <<>>
    ELSE (IF Head(entries).visible THEN <<Head(entries).gid>> ELSE <<>>)
         \o VisibleGids(Tail(entries))

\* The gid of the entry left of the edit point of a local edit at from: the
\* entry before the index getPosition(from) returns, none at index 0.
LeftOf(d, from) ==
    IF GetPosition(d, from).pos = 0 THEN NullGid
    ELSE At(d, GetPosition(d, from).pos - 1).gid

\* C36: for a valid edit, applyPlainUpdate(from, to, value, siteId) returns
\* exactly to - from deletes, one for each of the visible entries at the
\* visible positions from .. to - 1 in sequence order, followed by exactly
\* |value| inserts in the order of value; the first insert has as afterGid
\* the gid of the entry left of the edit point (none when there is no such
\* entry) and every later one the gid of the insert just before it.
ThmC36 ==
    \A siteId \in {LocalSite} \cup RemoteSites :
        \A e \in ValidEdits(document, siteId) :
            LET r == ApplyPlainUpdate(document, e[1], e[2], e[3], siteId)
                n == e[2] - e[1]
            IN  /\ r.ok
                /\ Len(r.out) = n + Len(e[3])
                /\ \A k \in 1 .. n :
                      r.out[k] = CRDTEvent(DELETE_OPERATION,
                                           VisibleGids(document.entries)[e[1] + k],
                                           NullChar, NullGid)
                /\ \A k \in 1 .. Len(e[3]) :
                      /\ IsInsert(r.out[n + k])
                      /\ r.out[n + k].char = e[3][k]
                      /\ r.out[n + k].afterGid
                            = IF k = 1 THEN LeftOf(document, e[1]) ELSE r.out[n + k - 1].gid
                /\ LeftOf(document, e[1]) = NullGid => e[1] = 0
                /\ LeftOf(document, e[1]) # NullGid =>
                      \E a \in IndicesOf(document, LeftOf(document, e[1])) :
                          Len(TextOf(SubSeq(document.entries, 1, a + 1))) = e[1]

\* The last call was a local edit that returned three events, two of them
\* deletes, which left two tombstones in front of the character it inserted
\* or around it.
WitC36 ==
    /\ last.op = "applyPlainUpdate" /\ last.ok /\ last.n = 3
    /\ Len(document.entries) = 3
    /\ Len(GetText(document)) = 1
    /\ \E i \in 0 .. 2 :
          /\ At(document, i).visible
          /\ At(document, i).gid = GlobalId(document.maxCounter, LocalSite)

\* Whether the replica has not applied event yet.
IsNew(d, event) == OpStr(event.type, event.gid) \notin d.appliedOps

\* The number of visible entries of d before the entry that carries gid.
VisibleBeforeGid(d, gid) ==
    Len(TextOf(SubSeq(d.entries, 1, CHOOSE i \in IndicesOf(d, gid) : TRUE)))

\* C37: integrating a new insert returns the single plain update
\* (n, n, char) where n is the number of visible entries before the new
\* entry, and integrating a new delete returns the single plain update
\* (n, n + 1, "") where n is the number of visible entries before the
\* deleted entry.
ThmC37 ==
    \A event \in Events :
        LET r == ApplyEvent(document, event) IN
        (IsNew(document, event) /\ r.ok) =>
            /\ IndicesOf(r.doc, event.gid) # {}
            /\ r.out = IF IsInsert(event)
                       THEN <<PlainUpdate(VisibleBeforeGid(r.doc, event.gid),
                                          VisibleBeforeGid(r.doc, event.gid),
                                          <<event.char>>)>>
                       ELSE <<PlainUpdate(VisibleBeforeGid(r.doc, event.gid),
                                          VisibleBeforeGid(r.doc, event.gid) + 1,
                                          <<>>)>>

\* The last call integrated one delete: the entry at the cached position is
\* a tombstone, with a visible entry and another tombstone before it.
WitC37 ==
    /\ last.op = "applyEvents" /\ last.ok /\ last.n = 1
    /\ document.cachedPosition = 2
    /\ document.cachedLength = 1
    /\ Len(document.entries) = 3
    /\ ~At(document, 2).visible
    /\ \E i \in 0 .. 1 : ~At(document, i).visible
    /\ OpStr(DELETE_OPERATION, At(document, 2).gid) \in document.appliedOps

\* C38: for every list of plain updates (each with from <= to) and every
\* text to which they apply in sequence, applying the list that
\* compactPlainUpdates returns in sequence yields the same text as applying
\* the original list in sequence.
ThmC38 ==
    compaction.called =>
        /\ ApplyUpdates(compaction.text, compaction.updates) = compaction.now
        /\ ApplyUpdates(compaction.text, compaction.result) = compaction.now
        /\ \A k \in 1 .. Len(compaction.result) :
              compaction.result[k].from <= compaction.result[k].to

\* compactPlainUpdates was called on three updates of a text of two
\* characters and merged the first two into a replace that deletes two
\* characters and inserts two; the third stayed apart.
WitC38 ==
    /\ compaction.called
    /\ Len(compaction.text) = 2
    /\ Len(compaction.updates) = 3
    /\ Len(compaction.result) = 2
    /\ compaction.result[1].to - compaction.result[1].from = 2
    /\ Len(compaction.result[1].value) = 2
    /\ compaction.updates[1].to > compaction.updates[1].from
    /\ compaction.updates[1].value # <<>>
    /\ compaction.result[2] = compaction.updates[3]

\* Whether d holds an entry with this gid that is visible, or a tombstone.
IsVisible(d, gid) == \E i \in IndicesOf(d, gid) : At(d, i).visible

IsTombstone(d, gid) == \E i \in IndicesOf(d, gid) : ~At(d, i).visible

\* Replica a has deleted the entry gid and replica b has inserted ins anchored
\* at it, neither having seen the other's operation; a then applies what b
\* emitted (toA) and b what a emitted (toB).  Both calls return, the replicas
\* have the same entries and text, and each holds the entry of ins and the
\* tombstone of gid (ins being visible unless deleted is set).
Integrates(a, b, toA, toB, gid, ins, deleted) ==
    LET ra == ApplyEvents(a, toA)
        rb == ApplyEvents(b, toB)
    IN  /\ ra.ok /\ rb.ok
        /\ GetText(ra.doc) = GetText(rb.doc)
        /\ ra.doc.entries = rb.doc.entries
        /\ \A d \in {ra.doc, rb.doc} :
              /\ IsTombstone(d, gid)
              /\ IndicesOf(d, ins.gid) # {}
              /\ ~deleted => IsVisible(d, ins.gid)

\* A replica that saw neither operation applies the delete of gid and the
\* insert ins in either order: every call returns and the outcome is the same.
EitherOrder(seen, gid, ins) ==
    LET del == CRDTEvent(DELETE_OPERATION, gid, NullChar, NullGid)
        r1 == ApplyEvents(seen, <<del, ins>>)
        r2 == ApplyEvents(seen, <<ins, del>>)
        r3 == ApplyEvents(ApplyEvents(seen, <<del>>).doc, <<ins>>)
        r4 == ApplyEvents(ApplyEvents(seen, <<ins>>).doc, <<del>>)
    IN  /\ r1.ok /\ r2.ok /\ r3.ok /\ r4.ok
        /\ \A d \in {r2.doc, r3.doc, r4.doc} : d.entries = r1.doc.entries
        /\ IsTombstone(r1.doc, gid)
        /\ IsVisible(r1.doc, ins.gid)

\* Whether queue holds a delete of gid.
Deletes(queue, gid) ==
    \E k \in 1 .. Len(queue) : queue[k].type = DELETE_OPERATION /\ queue[k].gid = gid

\* The gids of the entries the deletes of queue are for.
DeletedBy(queue) ==
    {queue[k].gid : k \in {j \in 1 .. Len(queue) : queue[j].type = DELETE_OPERATION}}

\* The inserts of queue that are anchored at gid.
AnchoredAt(queue, gid) ==
    {queue[k] : k \in {j \in 1 .. Len(queue) : IsInsert(queue[j]) /\ queue[j].afterGid = gid}}

\* Replica a deletes the visible character number v and replica b, in the
\* same replicated state, inserts a character after it; when the insert is
\* anchored at the deleted entry, the two replicas integrate each other's
\* operation and a replica that saw neither integrates both in either order.
Crossing(a, siteA, b, siteB, v) ==
    LET del == ApplyPlainUpdate(a, v, v + 1, <<>>, siteA)
        ins == ApplyPlainUpdate(b, v + 1, v + 1, <<Letters(siteB)[1]>>, siteB)
        gid == VisibleGids(a.entries)[v + 1]
    IN  /\ del.ok /\ ins.ok
        /\ del.out = <<CRDTEvent(DELETE_OPERATION, gid, NullChar, NullGid)>>
        /\ Len(ins.out) = 1
        /\ ins.out[1].afterGid = gid =>
              /\ Integrates(del.doc, ins.doc, ins.out, del.out, gid, ins.out[1], FALSE)
              /\ EitherOrder(a, gid, ins.out[1])
              /\ GetText(ApplyEvents(del.doc, ins.out).doc)
                    = Replace(GetText(a), v, v + 1, <<Letters(siteB)[1]>>)

\* C39: when one site deletes a character while another site concurrently
\* inserts a character anchored at it (afterGid = the gid of the deleted
\* character), both operations integrate without failure on every replica
\* in either delivery order, and the replicas end with the same text, which
\* contains the inserted character and not the deleted one.
ThmC39 ==
    /\ \A g \in DeletedBy(bobQueue) :
          ~Deletes(aliceQueue, g) =>
              \A ins \in AnchoredAt(aliceQueue, g) :
                  Integrates(aliceDocument, bobDocument, aliceQueue, bobQueue, g, ins,
                             Deletes(aliceQueue, ins.gid))
    /\ \A g \in DeletedBy(aliceQueue) :
          ~Deletes(bobQueue, g) =>
              \A ins \in AnchoredAt(bobQueue, g) :
                  Integrates(bobDocument, aliceDocument, bobQueue, aliceQueue, g, ins,
                             Deletes(bobQueue, ins.gid))
    /\ (SameReplica(aliceDocument, bobDocument) /\ aliceQueue = <<>> /\ bobQueue = <<>>) =>
          \A v \in 0 .. Len(GetText(aliceDocument)) - 1 :
              /\ Crossing(aliceDocument, AliceSite, bobDocument, BobSite, v)
              /\ Crossing(bobDocument, BobSite, aliceDocument, AliceSite, v)

\* Alice has deleted a character and Bob has inserted one anchored at it;
\* neither operation is delivered yet.
WitC39 ==
    \E g \in {At(aliceDocument, i).gid : i \in 0 .. Len(aliceDocument.entries) - 1} :
        /\ IsTombstone(aliceDocument, g)
        /\ IsVisible(bobDocument, g)
        /\ Deletes(bobQueue, g)
        /\ AnchoredAt(aliceQueue, g) # {}
        /\ \A ins \in AnchoredAt(aliceQueue, g) :
              /\ IsVisible(bobDocument, ins.gid)
              /\ IndicesOf(aliceDocument, ins.gid) = {}

====
